---- MODULE Spec2Model ----
(***************************************************************************)
(* Sentinel-1 TOPS GRD thermal noise correction                            *)
(* (s1denoise/S1_TOPS_GRD_NoiseCorrection.py, class Sentinel1Image).       *)
(*                                                                         *)
(* Rasters are functions from <<line, pixel>> to numbers.  A number is a   *)
(* pair <<n, d>>: the rational n/d in lowest terms with d > 0, or one of   *)
(* the IEEE specials <<0,0>> (NaN), <<1,0>> (+inf), <<-1,0>> (-inf).       *)
(* Floating point rounding is not modelled: arithmetic is exact.           *)
(***************************************************************************)
EXTENDS Integers, Sequences, FiniteSets, TLC

VARIABLES
    pc,                 \* position in the method being executed
    obsMode,            \* self.obsMode: "IW" or "EW"
    shape,              \* self.shape(): <<lines, pixels>>
    swathBounds,        \* import_swathBounds: subswath number -> list of rectangles
    iSW,                \* loop variable of "for iSW in range(1, N+1)"
    iRect,              \* position in the zipped rectangle list of subswath iSW
    subswathIndexMap,   \* the raster built by subswathIndexMap()
    product,            \* what the product and its annotation hold (read only)
    args,               \* the arguments of the method being executed
    vectorMap,          \* the raster calibrationVectorMap / noiseVectorMap builds
    rawSigma0,          \* local of thermalNoiseRemoval
    noiseEquivalentSigma0,  \* local of thermalNoiseRemoval / modifiedNoiseEquivalentSigma0Map
    sigma0,             \* local of thermalNoiseRemoval, returned
    coefficients,       \* what import_denoisingCoefficients returned
    locals,             \* the locals of the helper method being executed
    returned            \* what the calls made so far returned

idxVars == <<obsMode, shape, swathBounds, iSW, iRect, subswathIndexMap>>

denVars == <<product, args, vectorMap, rawSigma0, noiseEquivalentSigma0, sigma0, coefficients,
            locals, returned>>

vars == <<pc, idxVars, denVars>>

-----------------------------------------------------------------------------
(* Numbers *)

NaN == <<0, 0>>
PosInf == <<1, 0>>
NegInf == <<-1, 0>>
Zero == <<0, 1>>
One == <<1, 1>>

Abs(i) == IF i < 0 THEN -i ELSE i

Sign(i) == IF i < 0 THEN -1 ELSE IF i > 0 THEN 1 ELSE 0

RECURSIVE GCD(_, _)
GCD(a, b) == IF b = 0 THEN a ELSE GCD(b, a % b)

\* the number n/d, d # 0, in lowest terms
Rat(n, d) ==
    LET g == GCD(Abs(n), Abs(d))
        s == IF d < 0 THEN -1 ELSE 1
    IN  <<(s * n) \div g, (s * d) \div g>>

IsNaN(a) == a = NaN
IsInf(a) == a[2] = 0 /\ a[1] # 0
IsFinite(a) == a[2] # 0

RNeg(a) == <<-a[1], a[2]>>

RAdd(a, b) ==
    IF IsNaN(a) \/ IsNaN(b) THEN NaN
    ELSE IF IsInf(a) /\ IsInf(b) THEN (IF a = b THEN a ELSE NaN)
    ELSE IF IsInf(a) THEN a
    ELSE IF IsInf(b) THEN b
    ELSE LET g == GCD(a[2], b[2])
         IN  Rat(a[1] * (b[2] \div g) + b[1] * (a[2] \div g), (a[2] \div g) * b[2])

RSub(a, b) == RAdd(a, RNeg(b))

RMul(a, b) ==
    IF IsNaN(a) \/ IsNaN(b) THEN NaN
    ELSE IF IsInf(a) \/ IsInf(b)
         THEN (IF a[1] = 0 \/ b[1] = 0 THEN NaN ELSE <<Sign(a[1]) * Sign(b[1]), 0>>)
    ELSE LET g == GCD(Abs(a[1]), b[2])
             h == GCD(Abs(b[1]), a[2])
         IN  Rat((a[1] \div g) * (b[1] \div h), (a[2] \div h) * (b[2] \div g))

RDiv(a, b) ==
    IF IsNaN(a) \/ IsNaN(b) THEN NaN
    ELSE IF IsInf(b) THEN (IF IsInf(a) THEN NaN ELSE Zero)
    ELSE IF b[1] = 0
         THEN (IF a[1] = 0 THEN NaN ELSE <<Sign(a[1]), 0>>)
    ELSE IF IsInf(a) THEN <<Sign(a[1]) * Sign(b[1]), 0>>
    ELSE RMul(a, IF b[1] < 0 THEN <<-b[2], -b[1]>> ELSE <<b[2], b[1]>>)

\* a < b; every comparison with NaN is false
RLt(a, b) ==
    IF IsNaN(a) \/ IsNaN(b) THEN FALSE
    ELSE IF IsInf(a) \/ IsInf(b)
         THEN (IF a = b THEN FALSE ELSE a = NegInf \/ b = PosInf)
    ELSE LET g == GCD(a[2], b[2])
         IN  a[1] * (b[2] \div g) < b[1] * (a[2] \div g)

RLe(a, b) == ~IsNaN(a) /\ ~IsNaN(b) /\ ~RLt(b, a)

RECURSIVE SumSeq(_)
SumSeq(s) == IF s = <<>> THEN Zero ELSE RAdd(Head(s), SumSeq(Tail(s)))

-----------------------------------------------------------------------------
(* Image geometry *)

\* bounds of the image used when the index map is built rectangle by rectangle
IdxLines == 2

NumberOfSubswaths(mode) == IF mode = "IW" THEN 3 ELSE 5

IdxPixels == NumberOfSubswaths("IW")

Subswaths(mode) == 1..NumberOfSubswaths(mode)

Lines(shp) == 0..(shp[1] - 1)
Pixels(shp) == 0..(shp[2] - 1)
Grid(shp) == Lines(shp) \X Pixels(shp)

Rect(fal, frs, lal, lrs) ==
    [firstAzimuthLine |-> fal, firstRangeSample |-> frs,
     lastAzimuthLine |-> lal, lastRangeSample |-> lrs]

\* the pixels selected by the slice [fal:lal+1, frs:lrs+1]
InRect(r, p) ==
    /\ r.firstAzimuthLine <= p[1] /\ p[1] <= r.lastAzimuthLine
    /\ r.firstRangeSample <= p[2] /\ p[2] <= r.lastRangeSample

-----------------------------------------------------------------------------
(* subswathIndexMap *)

\* a slice that stops one short of lastAzimuthLine / lastRangeSample
PaintRectExclusive(map, r, k) ==
    [p \in DOMAIN map |->
        IF /\ r.firstAzimuthLine <= p[1] /\ p[1] < r.lastAzimuthLine
           /\ r.firstRangeSample <= p[2] /\ p[2] < r.lastRangeSample
        THEN k ELSE map[p]]

\* subswathIndexMap[fal:lal+1, frs:lrs+1] = iSW
PaintRect(map, r, k) ==
    [p \in DOMAIN map |-> IF InRect(r, p) THEN k ELSE map[p]]

RECURSIVE PaintRects(_, _, _)
PaintRects(map, rects, k) ==
    IF rects = <<>> THEN map
    ELSE PaintRects(PaintRect(map, Head(rects), k), Tail(rects), k)

RECURSIVE PaintSubswaths(_, _, _, _)
PaintSubswaths(map, bounds, k, n) ==
    IF k > n THEN map
    ELSE PaintSubswaths(PaintRects(map, bounds[k], k), bounds, k + 1, n)

\* the whole method: zeros, then every rectangle of every subswath in order
SubswathIndexMapOf(bounds, mode, shp) ==
    PaintSubswaths([p \in Grid(shp) |-> 0], bounds, 1, NumberOfSubswaths(mode))

\* rectangles inside an image of the given shape
RectsIn(shp) ==
    { Rect(fal, frs, lal, lrs) :
        <<fal, frs, lal, lrs>> \in
            { q \in Lines(shp) \X Pixels(shp) \X Lines(shp) \X Pixels(shp) :
                q[1] <= q[3] /\ q[2] <= q[4] } }

\* a subswath in two azimuth segments, the second one shifted in range
TwoSegmentLists(shp, k) ==
    IF shp[1] < 2 THEN {}
    ELSE { << Rect(0, k - 1, 0, k - 1), Rect(1, c, shp[1] - 1, c) >> :
             c \in { x \in Pixels(shp) : x = k - 1 \/ x = k } }

RectLists(shp, k) ==
    {<<>>} \cup { <<r>> : r \in RectsIn(shp) } \cup TwoSegmentLists(shp, k)

IdxShape == <<IdxLines, IdxPixels>>

InitIndexMap ==
    /\ pc = "indexMap"
    /\ obsMode = "IW"
    /\ shape = IdxShape
    /\ swathBounds \in { b \in [Subswaths("IW") -> UNION { RectLists(IdxShape, k) : k \in Subswaths("IW") }] :
                           \A k \in Subswaths("IW") : b[k] \in RectLists(IdxShape, k) }
    /\ iSW = 1
    /\ iRect = 1
    /\ subswathIndexMap = [p \in Grid(IdxShape) |-> 0]
    /\ product = <<>>
    /\ args = <<>>
    /\ vectorMap = <<>>
    /\ locals = <<>>
    /\ returned = <<>>
    /\ rawSigma0 = <<>>
    /\ noiseEquivalentSigma0 = <<>>
    /\ sigma0 = <<>>
    /\ coefficients = <<>>

\* one pass of "for fal, frs, lal, lrs in zipped"
PaintNextRect ==
    /\ pc = "indexMap"
    /\ iSW <= NumberOfSubswaths(obsMode)
    /\ iRect <= Len(swathBounds[iSW])
    /\ subswathIndexMap' = PaintRect(subswathIndexMap, swathBounds[iSW][iRect], iSW)
    /\ iRect' = iRect + 1
    /\ UNCHANGED <<pc, obsMode, shape, swathBounds, iSW, denVars>>

\* the rectangle list of subswath iSW is exhausted
NextSubswath ==
    /\ pc = "indexMap"
    /\ iSW <= NumberOfSubswaths(obsMode)
    /\ iRect > Len(swathBounds[iSW])
    /\ iSW' = iSW + 1
    /\ iRect' = 1
    /\ UNCHANGED <<pc, obsMode, shape, swathBounds, subswathIndexMap, denVars>>

ReturnIndexMap ==
    /\ pc = "indexMap"
    /\ iSW > NumberOfSubswaths(obsMode)
    /\ pc' = "indexMapDone"
    /\ UNCHANGED <<idxVars, denVars>>

NextIndexMap == PaintNextRect \/ NextSubswath \/ ReturnIndexMap

SpecIndexMap == InitIndexMap /\ [][NextIndexMap]_vars

-----------------------------------------------------------------------------
(* C1 *)

InSubswath(bounds, k, p) == \E i \in 1..Len(bounds[k]) : InRect(bounds[k][i], p)

CoveringSubswaths(bounds, mode, p) == { k \in Subswaths(mode) : InSubswath(bounds, k, p) }

SetMax(S) == CHOOSE m \in S : \A x \in S : x <= m

\* rectangles of two different subswaths share no pixel
DisjointSubswaths(bounds, mode, shp) ==
    \A p \in Grid(shp) : Cardinality(CoveringSubswaths(bounds, mode, p)) <= 1

\* C1 as stated: for every list of rectangles the returned map holds 0 exactly
\* at the pixels no rectangle contains and k exactly at the pixels a rectangle
\* of subswath k contains.
C1_AsStated ==
    pc = "indexMapDone" =>
        \A p \in Grid(shape) :
            /\ subswathIndexMap[p] \in 0..NumberOfSubswaths(obsMode)
            /\ (subswathIndexMap[p] = 0) <=> (CoveringSubswaths(swathBounds, obsMode, p) = {})
            /\ \A k \in Subswaths(obsMode) :
                   (subswathIndexMap[p] = k) <=> InSubswath(swathBounds, k, p)

\* C1 amended: the returned map holds exactly one value in 0..N per pixel, 0
\* exactly at the pixels no rectangle contains, otherwise the highest subswath
\* number among the rectangles containing the pixel (a later subswath
\* overwrites an earlier one); when rectangles of different subswaths do not
\* overlap, the value is k exactly at the pixels of subswath k's rectangles.
C1_IndexMap ==
    pc = "indexMapDone" =>
        /\ \A p \in Grid(shape) :
              LET cov == CoveringSubswaths(swathBounds, obsMode, p)
              IN  /\ subswathIndexMap[p] \in 0..NumberOfSubswaths(obsMode)
                  /\ (subswathIndexMap[p] = 0) <=> (cov = {})
                  /\ cov # {} => subswathIndexMap[p] = SetMax(cov)
        /\ DisjointSubswaths(swathBounds, obsMode, shape) =>
              \A p \in Grid(shape) : \A k \in Subswaths(obsMode) :
                  (subswathIndexMap[p] = k) <=> InSubswath(swathBounds, k, p)

\* a finished map of a proper partition with an uncovered pixel and a
\* subswath held in two segments
C1_Witness ==
    /\ pc = "indexMapDone"
    /\ DisjointSubswaths(swathBounds, obsMode, shape)
    /\ \E p \in Grid(shape) : subswathIndexMap[p] = 0
    /\ \A k \in Subswaths(obsMode) : \E p \in Grid(shape) : subswathIndexMap[p] = k
    /\ \E k \in Subswaths(obsMode) : Len(swathBounds[k]) = 2

-----------------------------------------------------------------------------
(* Raster helpers *)

RECURSIVE SumOver(_, _)
SumOver(f, S) ==
    IF S = {} THEN Zero
    ELSE LET x == CHOOSE y \in S : TRUE
         IN  RAdd(f[x], SumOver(f, S \ {x}))

\* np.nanmean: the mean over the non-NaN entries, NaN when there is none
NanMean(raster) ==
    LET valid == { p \in DOMAIN raster : ~IsNaN(raster[p]) }
    IN  IF valid = {} THEN NaN
        ELSE RDiv(SumOver(raster, valid), <<Cardinality(valid), 1>>)

-----------------------------------------------------------------------------
(* rawSigma0Map, rawNoiseEquivalentSigma0Map *)

\* noiseCalibrationFactor of rawNoiseEquivalentSigma0Map, as exact fractions
NoiseCalibrationFactor(mode, k) ==
    IF mode = "IW"
    THEN CASE k = 1 -> <<596583803, 10000>>      \* 59658.3803
           [] k = 2 -> <<164795121, 3125>>       \* 52734.43872
           [] OTHER -> <<597586889, 10000>>      \* 59758.6889
    ELSE CASE k = 1 -> <<5606587, 100>>          \* 56065.87
           [] k = 2 -> <<5655976, 100>>          \* 56559.76
           [] k = 3 -> <<4495639, 100>>          \* 44956.39
           [] k = 4 -> <<4632429, 100>>          \* 46324.29
           [] OTHER -> <<4350568, 100>>          \* 43505.68

\* {'IW':474, 'EW':1087}[obsMode]**2 * noiseCalibrationFactor[subswath].  The
\* product (about 1e10) is kept as a symbol: a number carrying it is the
\* 4-tuple <<n, d, factor, e>>, standing for (n/d) * factor^e with e = -1 (a
\* noise LUT in unscaled units) or e = 1.
PreScalingFactor(mode, k) ==
    [base |-> IF mode = "IW" THEN 474 ELSE 1087,
     noiseCalibrationFactor |-> NoiseCalibrationFactor(mode, k)]

IsTagged(v) == Len(v) = 4
Mantissa(v) == <<v[1], v[2]>>
Tagged(q, f, e) == IF IsFinite(q) /\ q[1] # 0 THEN <<q[1], q[2], f, e>> ELSE q

\* v / c for a plain number c
DivideBy(v, c) ==
    IF IsTagged(v) THEN Tagged(RDiv(Mantissa(v), c), v[3], v[4]) ELSE RDiv(v, c)

\* v * factor
TimesFactor(v, f) ==
    IF IsTagged(v)
    THEN (IF v[3] = f /\ v[4] = -1 THEN Mantissa(v) ELSE <<v[1], v[2], f, 2>>)
    ELSE Tagged(v, f, 1)

\* DN2 / np.power(calibrationVectorMap, 2)
RawSigma0Map(DN, cal) ==
    [p \in DOMAIN DN |-> RDiv(<<DN[p] * DN[p], 1>>, RMul(cal[p], cal[p]))]

NearZero == <<1, 10000>>    \* 1e-4, that is -40 dB

\* 10 * np.log10(np.nanmean(noiseEquivalentSigma0)) < -40.  A value in unscaled
\* units is at most 1e-9 and counts as 0 in the mean; log10 of a negative mean
\* is NaN and compares false.
PreScalingNeeded(nesz) ==
    LET plain == [p \in DOMAIN nesz |-> IF IsTagged(nesz[p]) THEN Zero ELSE nesz[p]]
        m == NanMean(plain)
    IN  RLe(Zero, m) /\ RLt(m, NearZero)

\* noiseVectorMap / calibrationVectorMap**2
AnnotatedNoise(nvm, cal) ==
    [p \in DOMAIN nvm |-> DivideBy(nvm[p], RMul(cal[p], cal[p]))]

\* the pre-scaling loop over the subswaths
PreScaled(nesz, idx, mode) ==
    [p \in DOMAIN nesz |->
        IF idx[p] \in Subswaths(mode)
        THEN TimesFactor(nesz[p], PreScalingFactor(mode, idx[p]))
        ELSE nesz[p]]

RawNoiseEquivalentSigma0Map(nvm, cal, idx, mode) ==
    LET nesz == AnnotatedNoise(nvm, cal)
    IN  IF PreScalingNeeded(nesz) THEN PreScaled(nesz, idx, mode) ELSE nesz

\* every entry is a plain number
IsPlainRaster(raster) == \A p \in DOMAIN raster : ~IsTagged(raster[p])

-----------------------------------------------------------------------------
(* import_denoisingCoefficients *)

\* A coefficient file (denoising_parameters_<satID>.npz, one polarization):
\*   fields          the keys of denoParams that are present
\*   noiseScaling    subswath -> (version key -> factor), both partial
\*   powerBalancing  subswath -> (version key -> offset), both partial
\*   extraScaling    [curves: subswath -> curve (partial), axis: <<>> or <<SNNR axis>>]
\*   noiseVariance   subswath -> value (partial)
\* An axis is [len, first, last] (a strictly increasing grid when first < last);
\* a curve is [len, value]: len samples of one constant value.

FallbackLength == 601

EmptyAxis == [len |-> 0, first |-> 0, last |-> 0]
FallbackAxis == [len |-> FallbackLength, first |-> -30, last |-> 30]   \* np.linspace(-30,+30,601)
FallbackCurve == [len |-> FallbackLength, value |-> One]               \* np.ones(601)

\* versions x.x5 whose binary double lies above the decimal tie
TiesRoundedUp == {235, 245, 275, 285, 295}

\* '%.1f' % IPFversion, with the version in hundredths and the key in tenths
FormatOneDecimal(v) ==
    IF v % 10 > 5 \/ (v % 10 = 5 /\ v \in TiesRoundedUp)
    THEN v \div 10 + 1 ELSE v \div 10

\* the special case of lines 326-330
EffectiveIPFversion(prod) ==
    IF prod.platform = "S1B" /\ prod.IPFversion = 272 /\ prod.sensedAfterLutChange
    THEN 280 ELSE prod.IPFversion

VersionedEntry(params, field, table, k, key, default) ==
    IF field \in params.fields /\ k \in DOMAIN table /\ key \in DOMAIN table[k]
    THEN table[k][key] ELSE default

\* the try block of lines 356-360 ran to its end for subswath k
ExtraScalingFound(params, k) ==
    /\ "extraScalingParameters" \in params.fields
    /\ k \in DOMAIN params.extraScaling.curves
    /\ params.extraScaling.axis # <<>>

\* extraScalingParameters after the loop: 'SNR' starts as [] and is set only by
\* a subswath found in the file; the fallback writes the key 'SNNR'
ImportExtraScaling(params, mode) ==
    LET found == { k \in Subswaths(mode) : ExtraScalingFound(params, k) }
    IN  [SNR |-> IF found # {} THEN params.extraScaling.axis[1] ELSE EmptyAxis,
         SNNR |-> IF found # Subswaths(mode) THEN <<FallbackAxis>> ELSE <<>>,
         curves |-> [k \in Subswaths(mode) |->
                        IF k \in found THEN params.extraScaling.curves[k] ELSE FallbackCurve]]

ImportDenoisingCoefficients(prod, mode) ==
    LET params == prod.denoParams
        key == FormatOneDecimal(EffectiveIPFversion(prod))
    IN  [noiseScalingParameters |->
            [k \in Subswaths(mode) |->
                VersionedEntry(params, "noiseScalingParameters", params.noiseScaling, k, key, One)],
         powerBalancingParameters |->
            [k \in Subswaths(mode) |->
                VersionedEntry(params, "powerBalancingParameters", params.powerBalancing, k, key, Zero)],
         extraScalingParameters |-> ImportExtraScaling(params, mode),
         noiseVarianceParameters |->
            [k \in Subswaths(mode) |->
                IF "noiseVarianceParameters" \in params.fields /\ k \in DOMAIN params.noiseVariance
                THEN params.noiseVariance[k] ELSE Zero]]

-----------------------------------------------------------------------------
(* adaptiveNoiseScaling *)

WindowSize == 5

\* the cells of the image under the window centred at p
Window(shp, p, w) ==
    { q \in Grid(shp) : Abs(q[1] - p[1]) <= w \div 2 /\ Abs(q[2] - p[2]) <= w \div 2 }

\* convolve(raster, ones/w**2, mode='constant', cval=0.0) at p
BoxMean(raster, shp, p, w) == RDiv(SumOver(raster, Window(shp, p, w)), <<w * w, 1>>)

RECURSIVE IntSumOver(_, _)
IntSumOver(f, S) ==
    IF S = {} THEN 0
    ELSE LET x == CHOOSE y \in S : TRUE
         IN  f[x] + IntSumOver(f, S \ {x})

\* the same convolution of the uint8 index map: the result is cast back to uint8
BoxMeanIndex(idx, shp, p, w) == IntSumOver(idx, Window(shp, p, w)) \div (w * w)

\* np.isfinite(10 * np.log10(meanSigma0 / meanNEsigma0 - 1))
FiniteSNR(meanSigma0, meanNEsigma0) ==
    LET r == RSub(RDiv(meanSigma0, meanNEsigma0), One)
    IN  IsFinite(r) /\ RLt(Zero, r)

\* InterpolatedUnivariateSpline(x, y, k=degree) can be built: as many values
\* as abscissae, more than degree of them, abscissae strictly increasing
SplineAccepts(axis, curve, degree) ==
    /\ axis.len = curve.len
    /\ axis.len > degree
    /\ axis.first < axis.last

\* the pixels subswath k's curve is applied to
ScaledBy(sig, nesz, idx, shp, k, w) ==
    { p \in Grid(shp) :
        /\ FiniteSNR(BoxMean(sig, shp, p, w), BoxMean(nesz, shp, p, w))
        /\ BoxMeanIndex(idx, shp, p, w) = k }

\* [raised, value]: raised when a subswath's spline cannot be built
AdaptiveNoiseScaling(sig, nesz, idx, extra, w, mode, shp) ==
    IF \E k \in Subswaths(mode) : ~SplineAccepts(extra.SNR, extra.curves[k], 3)
    THEN [raised |-> TRUE, value |-> nesz]
    ELSE [raised |-> FALSE,
          value |-> [p \in Grid(shp) |->
                        LET k == BoxMeanIndex(idx, shp, p, w)
                        IN  IF k \in Subswaths(mode) /\ p \in ScaledBy(sig, nesz, idx, shp, k, w)
                            THEN RMul(nesz[p], extra.curves[k].value)
                            ELSE nesz[p]]]

-----------------------------------------------------------------------------
(* modifiedNoiseEquivalentSigma0Map, step by step *)

\* the gate with its upper version included
ScallopingAppliesInclusive(ipf) == ipf >= 250 /\ ipf <= 290

\* self.IPFversion >= 2.5 and self.IPFversion < 2.9
ScallopingApplies(ipf) == ipf >= 250 /\ ipf < 290

\* the gain applied whatever the processor version
ApplyScallopingGainAlways(nesz, gain, ipf) == [p \in DOMAIN nesz |-> RMul(nesz[p], gain[p])]

ApplyScallopingGain(nesz, gain, ipf) ==
    IF ScallopingApplies(ipf) THEN [p \in DOMAIN nesz |-> RMul(nesz[p], gain[p])] ELSE nesz

\* noise scaling, then power balancing, subswath by subswath
ScaleAndBalance(nesz, idx, coef, mode) ==
    [p \in DOMAIN nesz |->
        IF idx[p] \in Subswaths(mode)
        THEN RAdd(RMul(nesz[p], coef.noiseScalingParameters[idx[p]]),
                  coef.powerBalancingParameters[idx[p]])
        ELSE nesz[p]]

\* the test without its polarization part
AdaptiveAppliesAnyPolarization(a, prod) == a.localNoisePowerCompensation

\* localNoisePowerCompensation and (polarization=='HV' or polarization=='VH')
AdaptiveApplies(a, prod) ==
    a.localNoisePowerCompensation /\ prod.polarization \in {"HV", "VH"}

-----------------------------------------------------------------------------
(* thermalNoiseRemoval *)

\* rawSigma0 < 1e-4
LowSignal == <<1, 10000>>

\* the noise vector map each variant reads: lutShift=True in
\* modifiedNoiseEquivalentSigma0Map, the default False in the ESA branch
LutShiftAlways(algorithm) == TRUE

LutShift(algorithm) == algorithm = "NERSC"

\* the operands swapped
SubtractReversed(raw, nesz) == [p \in DOMAIN raw |-> RSub(nesz[p], raw[p])]

\* sigma0 = rawSigma0 - noiseEquivalentSigma0
SubtractNoise(raw, nesz) == [p \in DOMAIN raw |-> RSub(raw[p], nesz[p])]

\* np.mean in place of np.nanmean
AddPlainMean(sig, nesz) ==
    LET m == RDiv(SumOver(nesz, DOMAIN nesz), <<Cardinality(DOMAIN nesz), 1>>)
    IN  [p \in DOMAIN sig |-> RAdd(sig[p], m)]

\* sigma0 += np.nanmean(noiseEquivalentSigma0)

AddMeanNoise(sig, nesz) ==
    LET m == NanMean(nesz)
    IN  [p \in DOMAIN sig |-> RAdd(sig[p], m)]

\* a clip written as "not above zero"
ClipNotPositive(sig) == [p \in DOMAIN sig |-> IF RLt(Zero, sig[p]) THEN sig[p] ELSE Zero]

\* sigma0[sigma0 < 0] = 0
ClipNegative(sig) == [p \in DOMAIN sig |-> IF RLt(sig[p], Zero) THEN Zero ELSE sig[p]]

\* NaN marking followed by a clip
MarkLowSignalAndClip(sig, raw) ==
    [p \in DOMAIN sig |->
        IF raw[p] = Zero \/ RLt(raw[p], LowSignal) THEN NaN
        ELSE IF RLt(sig[p], Zero) THEN Zero ELSE sig[p]]

\* sigma0[rawSigma0==0] = nan; sigma0[rawSigma0 < 1e-4] = nan
MarkLowSignal(sig, raw) ==
    [p \in DOMAIN sig |->
        IF raw[p] = Zero \/ RLt(raw[p], LowSignal) THEN NaN ELSE sig[p]]

PostFilter(algorithm, sig, raw) ==
    IF algorithm = "ESA" THEN ClipNegative(sig)
    ELSE IF algorithm = "NERSC" THEN MarkLowSignal(sig, raw)
    ELSE sig

denoiseConst == <<obsMode, shape, swathBounds, iSW, iRect, product, args, vectorMap,
                  locals, returned>>

CheckArguments ==
    /\ pc = "start"
    /\ pc' = IF args.algorithm \notin {"ESA", "NERSC"} \/ args.preserveTotalPower \notin BOOLEAN
             THEN "raised" ELSE "checked"
    /\ UNCHANGED <<denoiseConst, subswathIndexMap, rawSigma0, noiseEquivalentSigma0,
                   sigma0, coefficients>>

BuildIndexMap ==
    /\ pc = "checked"
    /\ subswathIndexMap' = SubswathIndexMapOf(swathBounds, obsMode, shape)
    /\ pc' = "indexed"
    /\ UNCHANGED <<denoiseConst, rawSigma0, noiseEquivalentSigma0, sigma0, coefficients>>

ComputeRawSigma0 ==
    /\ pc = "indexed"
    /\ rawSigma0' = RawSigma0Map(product.DN, product.calibrationVectorMap)
    /\ pc' = "raw"
    /\ UNCHANGED <<denoiseConst, subswathIndexMap, noiseEquivalentSigma0, sigma0, coefficients>>

\* rawNoiseEquivalentSigma0Map, called by the ESA branch directly and by
\* modifiedNoiseEquivalentSigma0Map first thing
ComputeRawNoise ==
    /\ pc = "raw"
    /\ noiseEquivalentSigma0' =
          RawNoiseEquivalentSigma0Map(product.noiseVectorMap[LutShift(args.algorithm)],
                                      product.calibrationVectorMap, subswathIndexMap, obsMode)
    /\ pc' = IF args.algorithm = "ESA" THEN "noise" ELSE "rawNoise"
    /\ UNCHANGED <<denoiseConst, subswathIndexMap, rawSigma0, sigma0, coefficients>>

Scalloping ==
    /\ pc = "rawNoise"
    /\ noiseEquivalentSigma0' =
          ApplyScallopingGain(noiseEquivalentSigma0, product.scallopingGainMap, product.IPFversion)
    /\ pc' = "scalloped"
    /\ UNCHANGED <<denoiseConst, subswathIndexMap, rawSigma0, sigma0, coefficients>>

ImportCoefficients ==
    /\ pc = "scalloped"
    /\ coefficients' = ImportDenoisingCoefficients(product, obsMode)
    /\ pc' = "imported"
    /\ UNCHANGED <<denoiseConst, subswathIndexMap, rawSigma0, noiseEquivalentSigma0, sigma0>>

\* the scaling step writing the scaled factors back into the coefficients
ScaleBalanceInPlace ==
    /\ pc = "imported"
    /\ noiseEquivalentSigma0' =
          ScaleAndBalance(noiseEquivalentSigma0, subswathIndexMap, coefficients, obsMode)
    /\ coefficients' = [coefficients EXCEPT !.noiseScalingParameters =
                           [k \in DOMAIN @ |-> RMul(@[k], @[k])]]
    /\ pc' = "balanced"
    /\ UNCHANGED <<denoiseConst, subswathIndexMap, rawSigma0, sigma0>>

ScaleBalance ==
    /\ pc = "imported"
    /\ noiseEquivalentSigma0' =
          ScaleAndBalance(noiseEquivalentSigma0, subswathIndexMap, coefficients, obsMode)
    /\ pc' = "balanced"
    /\ UNCHANGED <<denoiseConst, subswathIndexMap, rawSigma0, sigma0, coefficients>>

AdaptiveScaling ==
    /\ pc = "balanced"
    /\ IF AdaptiveApplies(args, product)
       THEN LET r == AdaptiveNoiseScaling(rawSigma0, noiseEquivalentSigma0, subswathIndexMap,
                                          coefficients.extraScalingParameters,
                                          WindowSize, obsMode, shape)
            IN  /\ noiseEquivalentSigma0' = r.value
                /\ pc' = IF r.raised THEN "raised" ELSE "noise"
       ELSE /\ pc' = "noise"
            /\ UNCHANGED noiseEquivalentSigma0
    /\ UNCHANGED <<denoiseConst, subswathIndexMap, rawSigma0, sigma0, coefficients>>

Subtract ==
    /\ pc = "noise"
    /\ sigma0' = SubtractNoise(rawSigma0, noiseEquivalentSigma0)
    /\ pc' = "subtracted"
    /\ UNCHANGED <<denoiseConst, subswathIndexMap, rawSigma0, noiseEquivalentSigma0, coefficients>>

AddMean ==
    /\ pc = "subtracted"
    /\ sigma0' = IF args.preserveTotalPower
                 THEN AddMeanNoise(sigma0, noiseEquivalentSigma0) ELSE sigma0
    /\ pc' = "meanAdded"
    /\ UNCHANGED <<denoiseConst, subswathIndexMap, rawSigma0, noiseEquivalentSigma0, coefficients>>

Filter ==
    /\ pc = "meanAdded"
    /\ sigma0' = PostFilter(args.algorithm, sigma0, rawSigma0)
    /\ pc' = "done"
    /\ UNCHANGED <<denoiseConst, subswathIndexMap, rawSigma0, noiseEquivalentSigma0, coefficients>>

NextDenoise ==
    \/ CheckArguments
    \/ BuildIndexMap
    \/ ComputeRawSigma0
    \/ ComputeRawNoise
    \/ Scalloping
    \/ ImportCoefficients
    \/ ScaleBalance
    \/ AdaptiveScaling
    \/ Subtract
    \/ AddMean
    \/ Filter

-----------------------------------------------------------------------------
(* The products thermalNoiseRemoval is run on *)

\* pixels per line of the one-line images
DenPixels == 4

Arguments(alg, lnpc, ptp) ==
    [algorithm |-> alg, localNoisePowerCompensation |-> lnpc, preserveTotalPower |-> ptp]

Product(pol, ipf, plat, after, dn, cal, nvPlain, nvShifted, gain, store) ==
    [polarization |-> pol, IPFversion |-> ipf, platform |-> plat,
     sensedAfterLutChange |-> after, DN |-> dn, calibrationVectorMap |-> cal,
     noiseVectorMap |-> [shift \in BOOLEAN |-> IF shift THEN nvShifted ELSE nvPlain],
     scallopingGainMap |-> gain, denoParams |-> store]

Case(mode, shp, bounds, prod, a) ==
    [obsMode |-> mode, shape |-> shp, swathBounds |-> bounds, product |-> prod, args |-> a]

VersionTable(v27, v28) == (27 :> v27) @@ (28 :> v28)

StoredAxis == [len |-> 601, first |-> -30, last |-> 30]

\* a parameter file without any field
EmptyStore ==
    [fields |-> {}, noiseScaling |-> <<>>, powerBalancing |-> <<>>,
     extraScaling |-> [curves |-> <<>>, axis |-> <<>>], noiseVariance |-> <<>>]

AllFields == {"noiseScalingParameters", "powerBalancingParameters",
              "extraScalingParameters", "noiseVarianceParameters"}

\* every field, all subswaths, versions 2.7 and 2.8
FullStore(mode) ==
    [fields |-> AllFields,
     noiseScaling |-> [k \in Subswaths(mode) |-> VersionTable(<<3, 2>>, <<2, 1>>)],
     powerBalancing |-> [k \in Subswaths(mode) |-> VersionTable(<<1, 1000>>, Zero)],
     extraScaling |-> [curves |-> [k \in Subswaths(mode) |-> [len |-> 601, value |-> <<2, 1>>]],
                       axis |-> <<StoredAxis>>],
     noiseVariance |-> [k \in Subswaths(mode) |-> One]]

\* every field present with the neutral values
IdentityStore(mode) ==
    [fields |-> AllFields,
     noiseScaling |-> [k \in Subswaths(mode) |-> VersionTable(One, One)],
     powerBalancing |-> [k \in Subswaths(mode) |-> VersionTable(Zero, Zero)],
     extraScaling |-> [curves |-> [k \in Subswaths(mode) |-> [len |-> 601, value |-> One]],
                       axis |-> <<StoredAxis>>],
     noiseVariance |-> [k \in Subswaths(mode) |-> Zero]]

\* entries for some subswaths only
PartialStore ==
    [fields |-> AllFields,
     noiseScaling |-> [k \in {1, 2} |-> VersionTable(<<3, 2>>, <<2, 1>>)],
     powerBalancing |-> [k \in {1} |-> VersionTable(<<1, 1000>>, Zero)],
     extraScaling |-> [curves |-> [k \in {1} |-> [len |-> 601, value |-> <<2, 1>>]],
                       axis |-> <<StoredAxis>>],
     noiseVariance |-> [k \in {1} |-> One]]

\* extra-scaling curves stored without their 'SNNR' axis
NoAxisStore(mode) ==
    [fields |-> AllFields \ {"powerBalancingParameters"},
     noiseScaling |-> [k \in Subswaths(mode) |-> VersionTable(<<3, 2>>, <<2, 1>>)],
     powerBalancing |-> <<>>,
     extraScaling |-> [curves |-> [k \in Subswaths(mode) |-> [len |-> 601, value |-> <<2, 1>>]],
                       axis |-> <<>>],
     noiseVariance |-> [k \in Subswaths(mode) |-> One]]

Stores(mode) == {EmptyStore, FullStore(mode), IdentityStore(mode), PartialStore, NoAxisStore(mode)}

\* one line: subswath 1 on pixel 0, 2 on pixel 1, 3 on pixels 2..w-2; the last
\* pixel lies in no subswath
RowShape(w) == <<1, w>>

RowBounds(w) ==
    [k \in Subswaths("IW") |->
        IF k = 1 THEN <<Rect(0, 0, 0, 0)>>
        ELSE IF k = 2 THEN <<Rect(0, 1, 0, 1)>>
        ELSE <<Rect(0, 2, 0, w - 2)>>]

Covered(w) == 0..(w - 2)

\* [dn, cal, nv]: digital number, calibration value and noise value of a pixel
Pixel(dn, cal, nv) == [dn |-> dn, cal |-> cal, nv |-> nv]

Profiles ==
    { Pixel(1, <<10, 1>>, <<1, 5>>),      \* raw 0.01, noise 0.002
      Pixel(0, <<10, 1>>, <<1, 5>>),      \* raw 0, noise 0.002
      Pixel(1, <<100, 1>>, <<20, 1>>),    \* raw 1e-4, noise 0.002
      Pixel(1, <<200, 1>>, Zero),         \* raw 2.5e-5, noise 0
      Pixel(3, <<10, 1>>, <<9, 1>>) }     \* raw 0.09, noise 0.09

Ones(shp) == [p \in Grid(shp) |-> One]

\* the rasters of a one-line image whose covered pixel x has profile f[x]
RowDN(w, f) == [p \in Grid(RowShape(w)) |-> IF p[2] \in Covered(w) THEN f[p[2]].dn ELSE 0]
RowCal(w, f) == [p \in Grid(RowShape(w)) |-> IF p[2] \in Covered(w) THEN f[p[2]].cal ELSE NaN]
RowNoise(w, f) == [p \in Grid(RowShape(w)) |-> IF p[2] \in Covered(w) THEN f[p[2]].nv ELSE NaN]

PlainProduct(w, f) ==
    Product("HH", 290, "S1A", FALSE, RowDN(w, f), RowCal(w, f), RowNoise(w, f), RowNoise(w, f),
            Ones(RowShape(w)), EmptyStore)

\* every assignment of profiles to the covered pixels, both variants, both
\* settings of preserveTotalPower
ProfileCases ==
    { Case("IW", RowShape(DenPixels), RowBounds(DenPixels), PlainProduct(DenPixels, f),
           Arguments(alg, FALSE, ptp)) :
        f \in [Covered(DenPixels) -> Profiles], alg \in {"ESA", "NERSC"}, ptp \in BOOLEAN }


\* constant raw sigma0 0.01; noise-equivalent power 0.002, 0.003, 0.0025 in
\* subswaths 1, 2, 3 (calibration 10, DN 1)
ScenarioNoise(k) == IF k = 1 THEN <<1, 5>> ELSE IF k = 2 THEN <<3, 10>> ELSE <<1, 4>>

ScenarioProfile(w) ==
    [x \in Covered(w) |-> Pixel(1, <<10, 1>>, ScenarioNoise(IF x < 2 THEN x + 1 ELSE 3))]

\* a scalloping gain that is not flat
RippleGain(shp) == [p \in Grid(shp) |-> IF p[2] % 2 = 0 THEN <<11, 10>> ELSE <<9, 10>>]

Acquisitions == {<<"S1A", FALSE>>, <<"S1B", FALSE>>, <<"S1B", TRUE>>}

IPFversions == {245, 250, 272, 289, 290}

\* the scenario image under every configuration
ScenarioCases ==
    LET w == DenPixels
        f == ScenarioProfile(w)
    IN  { Case("IW", RowShape(w), RowBounds(w),
               Product(pol, ipf, acq[1], acq[2], RowDN(w, f), RowCal(w, f), RowNoise(w, f),
                       RowNoise(w, f), gain, store),
               Arguments(alg, lnpc, ptp)) :
            pol \in {"HH", "HV"}, ipf \in IPFversions, acq \in Acquisitions,
            gain \in {Ones(RowShape(w)), RippleGain(RowShape(w))}, store \in Stores("IW"),
            alg \in {"ESA", "NERSC", "SNAP"}, lnpc \in BOOLEAN, ptp \in BOOLEAN }

\* a noise LUT annotated in the unscaled units of early products: the value at
\* a pixel of subswath k is m / (base^2 * noiseCalibrationFactor_k)
Unscaled(m, mode, k) == Tagged(m, PreScalingFactor(mode, k), -1)

UnscaledShape(mode) == <<1, NumberOfSubswaths(mode) + 1>>

UnscaledBounds(mode) == [k \in Subswaths(mode) |-> <<Rect(0, k - 1, 0, k - 1)>>]

UnscaledNoise(mode, m) ==
    [p \in Grid(UnscaledShape(mode)) |->
        IF p[2] < NumberOfSubswaths(mode) THEN Unscaled(m, mode, p[2] + 1) ELSE NaN]

UnscaledProduct(mode, store) ==
    LET shp == UnscaledShape(mode)
    IN  Product("HH", 245, "S1A", FALSE,
                [p \in Grid(shp) |-> 1],
                [p \in Grid(shp) |-> IF p[2] < NumberOfSubswaths(mode) THEN <<10, 1>> ELSE NaN],
                UnscaledNoise(mode, <<1, 5>>), UnscaledNoise(mode, <<1, 4>>),
                Ones(shp), store)

UnscaledCasesOf(mode) ==
    { Case(mode, UnscaledShape(mode), UnscaledBounds(mode), UnscaledProduct(mode, store),
           Arguments(alg, FALSE, ptp)) :
        store \in {EmptyStore, FullStore(mode)}, alg \in {"ESA", "NERSC"}, ptp \in BOOLEAN }

UnscaledCases == UnscaledCasesOf("IW") \cup UnscaledCasesOf("EW")

\* an image tall and wide enough for the 5 x 5 window to lie inside it
BlockShape == <<WindowSize, WindowSize + 2>>

BlockBounds ==
    [k \in Subswaths("IW") |->
        IF k = 1 THEN <<Rect(0, 0, WindowSize - 1, WindowSize - 1)>>
        ELSE <<Rect(0, WindowSize + k - 2, WindowSize - 1, WindowSize + k - 2)>>]

BlockProduct(pol, store) ==
    Product(pol, 290, "S1A", FALSE,
            [p \in Grid(BlockShape) |-> 1],
            [p \in Grid(BlockShape) |-> <<10, 1>>],
            [p \in Grid(BlockShape) |-> <<1, 5>>],
            [p \in Grid(BlockShape) |-> <<1, 5>>],
            Ones(BlockShape), store)

BlockCases ==
    { Case("IW", BlockShape, BlockBounds, BlockProduct(pol, store), Arguments("NERSC", lnpc, ptp)) :
        pol \in {"HH", "HV", "VH"}, store \in Stores("IW"), lnpc \in BOOLEAN, ptp \in BOOLEAN }

DenoiseCases == ProfileCases \cup ScenarioCases \cup UnscaledCases \cup BlockCases

InitDenoise ==
    /\ pc = "start"
    /\ \E c \in DenoiseCases :
          /\ obsMode = c.obsMode
          /\ shape = c.shape
          /\ swathBounds = c.swathBounds
          /\ product = c.product
          /\ args = c.args
    /\ iSW = 0
    /\ iRect = 0
    /\ subswathIndexMap = <<>>
    /\ rawSigma0 = <<>>
    /\ noiseEquivalentSigma0 = <<>>
    /\ sigma0 = <<>>
    /\ coefficients = <<>>
    /\ vectorMap = <<>>
    /\ locals = <<>>
    /\ returned = <<>>

SpecDenoise == InitDenoise /\ [][NextDenoise]_vars

\* every number of the noise raster is an ordinary one once it has been built
NoiseRepresentable ==
    pc \in {"rawNoise", "scalloped", "imported", "balanced", "noise", "subtracted",
            "meanAdded", "done"} => IsPlainRaster(noiseEquivalentSigma0)

-----------------------------------------------------------------------------
(* Properties of thermalNoiseRemoval *)

Algorithm == args.algorithm

\* the pixels where the noise-equivalent raster is defined
NoiseDefined == { p \in DOMAIN noiseEquivalentSigma0 : ~IsNaN(noiseEquivalentSigma0[p]) }

\* M: the mean of the noise-equivalent raster over its non-NaN pixels
MeanNoise == RDiv(SumOver(noiseEquivalentSigma0, NoiseDefined), <<Cardinality(NoiseDefined), 1>>)

SpatialMean(raster, S) == RDiv(SumOver(raster, S), <<Cardinality(S), 1>>)

FiniteOn(raster, S) == \A p \in S : IsFinite(raster[p])

\* C2: before the post-filter every pixel is raw - N (preserveTotalPower
\* False) or raw - N + M (True), M the mean of N over its non-NaN pixels; with
\* preserveTotalPower True the mean of the denoised raster over the pixels
\* where N is defined equals the mean of the raw raster over them.
C2_Subtraction ==
    pc = "meanAdded" =>
        /\ \A p \in Grid(shape) :
              sigma0[p] = IF args.preserveTotalPower
                          THEN RAdd(RSub(rawSigma0[p], noiseEquivalentSigma0[p]), MeanNoise)
                          ELSE RSub(rawSigma0[p], noiseEquivalentSigma0[p])
        /\ (/\ args.preserveTotalPower
            /\ NoiseDefined # {}
            /\ FiniteOn(noiseEquivalentSigma0, NoiseDefined)
            /\ FiniteOn(rawSigma0, NoiseDefined))
           => SpatialMean(sigma0, NoiseDefined) = SpatialMean(rawSigma0, NoiseDefined)

\* the mean is added back to a raster whose noise is uneven and undefined
\* somewhere
C2_Witness ==
    /\ pc = "meanAdded"
    /\ args.preserveTotalPower
    /\ \E p \in Grid(shape) : IsNaN(noiseEquivalentSigma0[p])
    /\ \E p, q \in NoiseDefined : noiseEquivalentSigma0[p] # noiseEquivalentSigma0[q]
    /\ \E p \in NoiseDefined : sigma0[p] # rawSigma0[p]

\* C3: with algorithm 'ESA' the post-filter maps every non-NaN value v to
\* max(0, v), so every non-NaN output is >= 0, and leaves a NaN pixel NaN.
C3_ClipESA ==
    [][(pc = "meanAdded" /\ Algorithm = "ESA") =>
          \A p \in Grid(shape) :
             /\ sigma0'[p] = IF IsNaN(sigma0[p]) THEN NaN
                             ELSE IF RLt(sigma0[p], Zero) THEN Zero ELSE sigma0[p]
             /\ IsNaN(sigma0'[p]) \/ RLe(Zero, sigma0'[p])]_vars

\* an ESA result with a clipped pixel (negative after the mean was added
\* back), a NaN pixel and a pixel left as it was
C3_Witness ==
    /\ pc = "done"
    /\ Algorithm = "ESA"
    /\ args.preserveTotalPower
    /\ \E p \in Grid(shape) :
          /\ RLt(RAdd(RSub(rawSigma0[p], noiseEquivalentSigma0[p]), MeanNoise), Zero)
          /\ sigma0[p] = Zero
    /\ \E p \in Grid(shape) : IsNaN(sigma0[p])
    /\ \E p \in Grid(shape) : RLt(Zero, sigma0[p])

\* C4: with algorithm 'NERSC' the post-filter sets a pixel to NaN when its raw
\* sigma0 is zero or below 1e-4 and leaves every other pixel's subtracted
\* value as it is, negative values included.
C4_MarkNERSC ==
    [][(pc = "meanAdded" /\ Algorithm = "NERSC") =>
          \A p \in Grid(shape) :
             IF rawSigma0[p] = Zero \/ RLt(rawSigma0[p], <<1, 10000>>)
             THEN IsNaN(sigma0'[p])
             ELSE sigma0'[p] = sigma0[p]]_vars

\* a NERSC result with a zero-raw pixel and a low-raw pixel marked NaN where
\* the noise is defined, and a negative value kept
C4_Witness ==
    /\ pc = "done"
    /\ Algorithm = "NERSC"
    /\ \E p \in NoiseDefined : rawSigma0[p] = Zero /\ IsNaN(sigma0[p])
    /\ \E p \in NoiseDefined :
          rawSigma0[p] # Zero /\ RLt(rawSigma0[p], <<1, 10000>>) /\ IsNaN(sigma0[p])
    /\ \E p \in Grid(shape) : RLt(sigma0[p], Zero)

-----------------------------------------------------------------------------
(* The end-to-end scenario *)

ProductIndexMap == SubswathIndexMapOf(swathBounds, obsMode, shape)

\* the reconstructed noise before any rescaling, per setting of lutShift
Annotated(shift) == AnnotatedNoise(product.noiseVectorMap[shift], product.calibrationVectorMap)

ScenarioPower(k) == IF k = 1 THEN <<2, 1000>> ELSE IF k = 2 THEN <<3, 1000>> ELSE <<25, 10000>>

ScenarioResult(k) == IF k = 1 THEN <<8, 1000>> ELSE IF k = 2 THEN <<7, 1000>> ELSE <<75, 10000>>

\* the state is a run on the scenario's input: three subswaths, raw sigma0 0.01
\* and the given noise power on every covered pixel, no scalloping, identity
\* coefficients, preserveTotalPower False
Scenario ==
    /\ obsMode = "IW"
    /\ \A k \in Subswaths("IW") : \E p \in Grid(shape) : ProductIndexMap[p] = k
    /\ \A p \in Grid(shape) :
          ProductIndexMap[p] # 0 =>
              /\ RawSigma0Map(product.DN, product.calibrationVectorMap)[p] = <<1, 100>>
              /\ \A shift \in BOOLEAN :
                    Annotated(shift)[p] = Rat(ScenarioPower(ProductIndexMap[p])[1],
                                              ScenarioPower(ProductIndexMap[p])[2])
    /\ \/ product.IPFversion < 250 \/ product.IPFversion >= 290
       \/ \A p \in Grid(shape) : product.scallopingGainMap[p] = One
    /\ LET coef == ImportDenoisingCoefficients(product, obsMode)
       IN  \A k \in Subswaths("IW") :
              /\ coef.noiseScalingParameters[k] = One
              /\ coef.powerBalancingParameters[k] = Zero
              /\ coef.extraScalingParameters.curves[k].value = One
    /\ ~args.preserveTotalPower

\* C6: on the scenario's input thermalNoiseRemoval returns 0.008, 0.007 and
\* 0.0075 on the pixels of subswaths 1, 2 and 3 under both algorithms, and it
\* does return when local noise power compensation is not in effect.
C6_EndToEnd ==
    (Scenario /\ Algorithm \in {"ESA", "NERSC"}) =>
        /\ pc = "done" =>
              \A p \in Grid(shape) :
                 subswathIndexMap[p] # 0 =>
                    sigma0[p] = Rat(ScenarioResult(subswathIndexMap[p])[1],
                                    ScenarioResult(subswathIndexMap[p])[2])
        /\ ~AdaptiveApplies(args, product) => pc # "raised"

\* the corrected variant has returned on the scenario's input, gone through
\* the version gate of the scalloping correction with a flat gain
C6_Witness ==
    /\ Scenario
    /\ pc = "done"
    /\ Algorithm = "NERSC"
    /\ product.IPFversion = 272
    /\ "noiseScalingParameters" \in product.denoParams.fields
    /\ sigma0[<<0, 0>>] = <<1, 125>>

-----------------------------------------------------------------------------
(* The noise raster of the reference variant *)

NoiseBuilt == pc \in {"noise", "subtracted", "meanAdded", "done"}

\* C7 as stated: the raster the ESA variant subtracts is the noise vector map
\* divided by the squared calibration map, with nothing else applied.
C7_AsStated ==
    (Algorithm = "ESA" /\ NoiseBuilt) => noiseEquivalentSigma0 = Annotated(FALSE)

\* the mean of the reconstructed noise lies below -40 dB
BelowMinus40dB(nesz) ==
    LET plain == [p \in DOMAIN nesz |-> IF IsTagged(nesz[p]) THEN Zero ELSE nesz[p]]
        valid == { p \in DOMAIN plain : ~IsNaN(plain[p]) }
    IN  /\ valid # {}
        /\ LET m == SpatialMean(plain, valid)
           IN  RLe(Zero, m) /\ RLt(m, <<1, 10000>>)

\* C7: the raster the ESA variant subtracts is the reconstructed annotated
\* noise without LUT shift, whatever the scalloping gain and the coefficients
\* are; it is that noise unmodified unless its mean is below -40 dB, and then
\* each pixel of subswath k is that noise times base^2 * noiseCalibrationFactor_k.
C7_Reference ==
    (Algorithm = "ESA" /\ NoiseBuilt) =>
        IF BelowMinus40dB(Annotated(FALSE))
        THEN \A p \in Grid(shape) :
                IF subswathIndexMap[p] \in Subswaths(obsMode)
                THEN Unscaled(noiseEquivalentSigma0[p], obsMode, subswathIndexMap[p])
                        = Annotated(FALSE)[p]
                ELSE noiseEquivalentSigma0[p] = Annotated(FALSE)[p]
        ELSE noiseEquivalentSigma0 = Annotated(FALSE)

\* the ESA variant subtracts a pre-scaled raster
C7_Witness ==
    /\ Algorithm = "ESA"
    /\ pc = "done"
    /\ BelowMinus40dB(Annotated(FALSE))
    /\ \E p \in Grid(shape) :
          /\ noiseEquivalentSigma0[p] # Annotated(FALSE)[p]
          /\ noiseEquivalentSigma0[p] = <<1, 500>>

-----------------------------------------------------------------------------
(* Missing coefficients *)

\* an entry of subswath k is absent from the file for the product's version
EntryMissing(k) ==
    LET params == product.denoParams
        key == FormatOneDecimal(EffectiveIPFversion(product))
    IN  \/ "noiseScalingParameters" \notin params.fields
        \/ k \notin DOMAIN params.noiseScaling
        \/ key \notin DOMAIN params.noiseScaling[k]
        \/ "powerBalancingParameters" \notin params.fields
        \/ k \notin DOMAIN params.powerBalancing
        \/ key \notin DOMAIN params.powerBalancing[k]
        \/ ~ExtraScalingFound(params, k)

\* C8 as stated: when an entry is missing the corrected variant completes
\* without raising, with or without local noise power compensation.
C8_AsStated ==
    (Algorithm = "NERSC" /\ \E k \in Subswaths(obsMode) : EntryMissing(k)) => pc # "raised"

-----------------------------------------------------------------------------
(* Two runs of the subtraction on one raw raster *)

\* In this specification noiseEquivalentSigma0 and sigma0 hold a pair of
\* rasters, <<the one of the first run, the one of the second run>>; the
\* steps are those of lines 1090-1100 applied to both.

\* pixels of the rasters compared
MonoPixels == 2

MonoShape == <<1, MonoPixels>>

MonoRaw == {Zero, <<1, 20000>>, <<10, 1>>}

\* pairs <<N1, N2>> of noise values at one pixel, N1 <= N2 or both undefined
MonoNoise == {<<One, One>>, <<One, <<3, 1>>>>, <<<<3, 1>>, <<3, 1>>>>, <<NaN, NaN>>}

InitMono ==
    /\ pc = "noise"
    /\ obsMode = "IW"
    /\ shape = MonoShape
    /\ swathBounds = <<>>
    /\ iSW = 0
    /\ iRect = 0
    /\ subswathIndexMap = <<>>
    /\ product = <<>>
    /\ coefficients = <<>>
    /\ vectorMap = <<>>
    /\ locals = <<>>
    /\ returned = <<>>
    /\ args \in { Arguments(alg, FALSE, ptp) : alg \in {"ESA", "NERSC"}, ptp \in BOOLEAN }
    /\ rawSigma0 \in [Grid(MonoShape) -> MonoRaw]
    /\ \E n \in [Grid(MonoShape) -> MonoNoise] :
          noiseEquivalentSigma0 = <<[p \in Grid(MonoShape) |-> n[p][1]],
                                    [p \in Grid(MonoShape) |-> n[p][2]]>>
    /\ sigma0 = <<>>

SubtractBoth ==
    /\ pc = "noise"
    /\ sigma0' = [i \in 1..2 |-> SubtractNoise(rawSigma0, noiseEquivalentSigma0[i])]
    /\ pc' = "subtracted"
    /\ UNCHANGED <<denoiseConst, subswathIndexMap, rawSigma0, noiseEquivalentSigma0, coefficients>>

AddMeanBoth ==
    /\ pc = "subtracted"
    /\ sigma0' = [i \in 1..2 |->
                    IF args.preserveTotalPower
                    THEN AddMeanNoise(sigma0[i], noiseEquivalentSigma0[i]) ELSE sigma0[i]]
    /\ pc' = "meanAdded"
    /\ UNCHANGED <<denoiseConst, subswathIndexMap, rawSigma0, noiseEquivalentSigma0, coefficients>>

FilterBoth ==
    /\ pc = "meanAdded"
    /\ sigma0' = [i \in 1..2 |-> PostFilter(args.algorithm, sigma0[i], rawSigma0)]
    /\ pc' = "done"
    /\ UNCHANGED <<denoiseConst, subswathIndexMap, rawSigma0, noiseEquivalentSigma0, coefficients>>

NextMono == SubtractBoth \/ AddMeanBoth \/ FilterBoth

SpecMono == InitMono /\ [][NextMono]_vars

\* the second run's value at p does not exceed the first run's
NotIncreased(p) == RLe(sigma0[2][p], sigma0[1][p])

Comparable(p) == ~IsNaN(sigma0[1][p]) /\ ~IsNaN(sigma0[2][p])

\* the mean added back in run i (zero when preserveTotalPower is False)
AddedBack(i) == IF args.preserveTotalPower THEN NanMean(noiseEquivalentSigma0[i]) ELSE Zero

\* C5 as stated: for one raw raster and N1 <= N2 pointwise the result with N2
\* is pointwise <= the result with N1 for every algorithm and every setting of
\* preserveTotalPower (before the post-filter, so clipping and NaN marking
\* play no part).
C5_AsStated ==
    pc = "meanAdded" => \A p \in Grid(shape) : Comparable(p) => NotIncreased(p)

\* C5: with preserveTotalPower False the result with N2 is pointwise <= the
\* result with N1 under both algorithms, before and after the post-filter;
\* with preserveTotalPower True this holds at a pixel exactly when the noise
\* rose there by at least as much as its mean did.
C5_Monotone ==
    /\ (pc \in {"meanAdded", "done"} /\ ~args.preserveTotalPower) =>
          \A p \in Grid(shape) : Comparable(p) => NotIncreased(p)
    /\ pc = "meanAdded" =>
          \A p \in Grid(shape) :
             Comparable(p) =>
                (NotIncreased(p) <=>
                    RLe(RSub(AddedBack(2), AddedBack(1)),
                        RSub(noiseEquivalentSigma0[2][p], noiseEquivalentSigma0[1][p])))

\* both runs are done, the noise rose at one pixel only, and the results
\* differ there
C5_Witness ==
    /\ pc = "done"
    /\ ~args.preserveTotalPower
    /\ \E p, q \in Grid(shape) :
          /\ RLt(noiseEquivalentSigma0[1][p], noiseEquivalentSigma0[2][p])
          /\ noiseEquivalentSigma0[1][q] = noiseEquivalentSigma0[2][q]
          /\ RLt(sigma0[2][p], sigma0[1][p])
          /\ sigma0[2][q] = sigma0[1][q]

-----------------------------------------------------------------------------
(* calibrationVectorMap and noiseVectorMap (lutShift=False) *)

\* A sparse record is [line, pixel, value]: the values annotated at the given
\* pixels of one image line.  The pixel lists are strictly increasing.

RECURSIVE MinOf(_)
MinOf(S) == LET x == CHOOSE y \in S : TRUE
            IN  IF S = {x} THEN x ELSE LET m == MinOf(S \ {x}) IN IF x < m THEN x ELSE m

RECURSIVE MaxOf(_)
MaxOf(S) == LET x == CHOOSE y \in S : TRUE
            IN  IF S = {x} THEN x ELSE LET m == MaxOf(S \ {x}) IN IF x > m THEN x ELSE m

\* np.ones(self.shape()) * 1.0
OnesVectorMap(shp) == [p \in Grid(shp) |-> One]

\* np.ones(self.shape()) * np.nan
EmptyVectorMap(shp) == [p \in Grid(shp) |-> NaN]

\* xBins = np.arange(min(firstRangeSample), max(lastRangeSample) + 1)
XBins(bound) ==
    MinOf({ bound[i].firstRangeSample : i \in DOMAIN bound })
        .. MaxOf({ bound[i].lastRangeSample : i \in DOMAIN bound })

\* the records whose line lies within the subswath's azimuth extent, in order
SelectedRecords(records, bound) ==
    LET lo == MinOf({ bound[i].firstAzimuthLine : i \in DOMAIN bound })
        hi == MaxOf({ bound[i].lastAzimuthLine : i \in DOMAIN bound })
    IN  SelectSeq(records, LAMBDA r : lo <= r.line /\ r.line <= hi)

\* valid = (subswathIndexMap[y,x]==iSW) * (z > 0): positions in the record
ValidSamples(rec, idx, k) ==
    { i \in DOMAIN rec.pixel : idx[<<rec.line, rec.pixel[i]>>] = k /\ RLt(Zero, rec.value[i]) }

\* the elements of S in increasing order
RECURSIVE Ascending(_)
Ascending(S) == IF S = {} THEN <<>> ELSE <<MinOf(S)>> \o Ascending(S \ {MinOf(S)})

\* the product over j in 1..n, j # i, of (at - x[j])
RECURSIVE NodeProduct(_, _, _, _)
NodeProduct(x, i, at, n) ==
    IF n = 0 THEN 1
    ELSE (IF n = i THEN 1 ELSE at - x[n]) * NodeProduct(x, i, at, n - 1)

\* InterpolatedUnivariateSpline(x, z)(t) for degree + 1 points at integer
\* positions: the polynomial through them (Lagrange form), inside and outside
\* their span
PolynomialThrough(x, z, t) ==
    SumSeq([i \in DOMAIN x |->
              RMul(z[i], Rat(NodeProduct(x, i, t, Len(x)), NodeProduct(x, i, x[i], Len(x))))])

\* f itself, as an array of computed values
Computed(f) == f @@ <<>>

\* the default degree of InterpolatedUnivariateSpline
SplineDegree == 3

\* what one record contributes to zi: "skipped" (the row stays NaN), "raised"
\* (the cubic spline cannot be built from 1..3 samples) or the row on xBins
RangeRow(rec, idx, k, xBins) ==
    LET valid == Ascending(ValidSamples(rec, idx, k))
        x == Computed([i \in DOMAIN valid |-> rec.pixel[valid[i]]])
        z == Computed([i \in DOMAIN valid |-> rec.value[valid[i]]])
    IN  IF Len(valid) = 0 THEN [status |-> "skipped", row |-> <<>>]
        ELSE IF Len(valid) <= SplineDegree THEN [status |-> "raised", row |-> <<>>]
        ELSE [status |-> "built", row |-> Computed([t \in xBins |-> PolynomialThrough(x, z, t)])]

Clamp(t, lo, hi) == IF t < lo THEN lo ELSE IF t > hi THEN hi ELSE t

\* the mutation of Bilinear that takes the row of the record below
NearestRow(xBins, lines, rows, t, y) ==
    LET tc == Clamp(t, MinOf(xBins), MaxOf(xBins))
        yc == Clamp(y, lines[1], lines[Len(lines)])
    IN  rows[MaxOf({ i \in DOMAIN lines : lines[i] <= yc })][tc]

\* RectBivariateSpline(xBins, lines, rows, kx=1, ky=1) evaluated at (t, y):
\* linear between the rows around y, arguments clamped to the data's extent
Bilinear(xBins, lines, rows, t, y) ==
    LET tc == Clamp(t, MinOf(xBins), MaxOf(xBins))
        yc == Clamp(y, lines[1], lines[Len(lines)])
        below == MaxOf({ i \in DOMAIN lines : lines[i] <= yc })
        above == IF below = Len(lines) THEN below ELSE below + 1
    IN  IF above = below THEN rows[below][tc]
        ELSE LET w == Rat(yc - lines[below], lines[above] - lines[below])
             IN  RAdd(RMul(RSub(One, w), rows[below][tc]), RMul(w, rows[above][tc]))

\* one pass of the subswath loop: [raised, value]
RangeInterpolation(map, records, bound, idx, k, shp) ==
    LET xBins == XBins(bound)
        selected == SelectedRecords(records, bound)
        built == Computed([i \in DOMAIN selected |-> RangeRow(selected[i], idx, k, xBins)])
        usable == Ascending({ i \in DOMAIN selected : built[i].status = "built" })
        lines == Computed([j \in DOMAIN usable |-> selected[usable[j]].line])
        rows == Computed([j \in DOMAIN usable |-> built[usable[j]].row])
    IN  IF \/ \E i \in DOMAIN selected : built[i].status = "raised"
           \/ Len(usable) < 2
           \/ Cardinality(xBins) < 2
        THEN [raised |-> TRUE, value |-> map]
        ELSE [raised |-> FALSE,
              value |-> [p \in Grid(shp) |->
                            IF idx[p] = k THEN Bilinear(xBins, lines, rows, p[2], p[1])
                            ELSE map[p]]]

\* InterpolatedUnivariateSpline(y, z, k=1)(t): piecewise linear, the end
\* pieces continued outside
LinearThrough(y, z, t) ==
    LET inside == { i \in 1..(Len(y) - 1) : y[i] <= t }
        i == IF inside = {} THEN 1 ELSE MaxOf(inside)
    IN  RAdd(z[i], RMul(Rat(t - y[i], y[i + 1] - y[i]), RSub(z[i + 1], z[i])))

\* the factor of an azimuth block on image line y
AzimuthFactor(blk, y) ==
    IF blk.isList THEN LinearThrough(blk.line, blk.noiseAzimuthLut, y) ELSE blk.noiseAzimuthLut[1]

InBlock(blk, p) ==
    /\ blk.firstAzimuthLine <= p[1] /\ p[1] <= blk.lastAzimuthLine
    /\ blk.firstRangeSample <= p[2] /\ p[2] <= blk.lastRangeSample

\* noiseVectorMap[yBins, xs:xe+1] *= ... for the blocks of one subswath in turn
RECURSIVE ApplyBlocks(_, _, _)
ApplyBlocks(map, blocks, n) ==
    IF n > Len(blocks) THEN map
    ELSE ApplyBlocks([p \in DOMAIN map |->
                         IF InBlock(blocks[n], p)
                         THEN RMul(map[p], AzimuthFactor(blocks[n], p[1])) ELSE map[p]],
                     blocks, n + 1)

-----------------------------------------------------------------------------
(* The annotations the vector maps are built from *)

\* lines of the image, and pixels per subswath
GridLines == 4
SwathWidth == 5

GridShape == <<GridLines, NumberOfSubswaths("IW") * SwathWidth + 1>>

\* subswath k spans SwathWidth pixels over all lines; the last pixel of every
\* line lies in no subswath
GridBounds ==
    [k \in Subswaths("IW") |->
        <<Rect(0, (k - 1) * SwathWidth, GridLines - 1, k * SwathWidth - 1)>>]

\* records are annotated on lines 0, 1 and the last line
RecordLines == <<0, 1, GridLines - 1>>

\* each record has SplineDegree + 1 samples on the first pixels of every
\* subswath and one on the last pixel of the line
SamplePixels ==
    [i \in 1..(NumberOfSubswaths("IW") * (SplineDegree + 1) + 1) |->
        ((i - 1) \div (SplineDegree + 1)) * SwathWidth + ((i - 1) % (SplineDegree + 1))]

\* the value of sample j (0..SplineDegree) of record r in subswath k:
\*   "F", "A"  positive everywhere (two shapes)
\*   "N"       nothing usable: zeros
\*   "P"       two positive values, the others zero
SampleValue(pattern, r, k, j) ==
    IF pattern = "F" THEN <<10 * k + r + j * j, 1>>
    ELSE IF pattern = "A" THEN <<20 * k + 3 * r + 1, 2 + j>>
    ELSE IF pattern = "P" /\ j < 2 THEN <<k + j + 1, 1>>
    ELSE Zero

\* pat[k][r]: the pattern of record r in subswath k
SparseRecords(pat) ==
    [r \in DOMAIN RecordLines |->
        [line |-> RecordLines[r],
         pixel |-> SamplePixels,
         value |-> [i \in DOMAIN SamplePixels |->
                      LET k == (i - 1) \div (SplineDegree + 1) + 1
                      IN  IF k \in Subswaths("IW")
                          THEN SampleValue(pat[k][r], r, k, (i - 1) % (SplineDegree + 1))
                          ELSE <<7, 1>>]]]

RecordPatterns ==
    { <<"F", "F", "F">>, <<"F", "A", "F">>, <<"F", "N", "F">>, <<"N", "F", "F">>,
      <<"F", "F", "N">>, <<"F", "N", "N">>, <<"N", "N", "N">>, <<"F", "P", "F">> }

\* one azimuth block per subswath, over its whole rectangle: a single factor,
\* or factors on the first and the last line
AzimuthBlocks(isList) ==
    [k \in Subswaths("IW") |->
        <<[firstAzimuthLine |-> 0, lastAzimuthLine |-> GridLines - 1,
           firstRangeSample |-> (k - 1) * SwathWidth, lastRangeSample |-> k * SwathWidth - 1,
           isList |-> isList,
           line |-> IF isList THEN <<0, GridLines - 1>> ELSE <<0>>,
           noiseAzimuthLut |-> IF isList THEN <<One, <<3, 2>>>> ELSE <<One>>]>>]

Annotation(pat, isList) ==
    [calibrationVector |-> SparseRecords(pat),
     noiseRangeVector |-> SparseRecords(pat),
     noiseAzimuthVector |-> AzimuthBlocks(isList)]

Method == args.method

\* the range records the running method reads
RangeRecords ==
    IF Method = "calibrationVectorMap" THEN product.calibrationVector
    ELSE product.noiseRangeVector

InitGrid ==
    /\ pc = "vectorMap"
    /\ obsMode = "IW"
    /\ shape = GridShape
    /\ swathBounds = GridBounds
    /\ \E pat \in [Subswaths("IW") -> RecordPatterns], isList \in BOOLEAN :
          /\ product = Annotation(pat, isList)
          /\ args \in { [method |-> m, lutShift |-> FALSE] :
                          m \in IF isList THEN {"noiseVectorMap"}
                                 ELSE {"calibrationVectorMap", "noiseVectorMap"} }
    /\ iSW = 0
    /\ iRect = 0
    /\ subswathIndexMap = <<>>
    /\ vectorMap = <<>>
    /\ locals = <<>>
    /\ returned = <<>>
    /\ rawSigma0 = <<>>
    /\ noiseEquivalentSigma0 = <<>>
    /\ sigma0 = <<>>
    /\ coefficients = <<>>

gridConst == <<obsMode, shape, swathBounds, iRect, product, args, rawSigma0,
               noiseEquivalentSigma0, sigma0, coefficients, locals, returned>>

\* the lines before the subswath loop
StartVectorMap ==
    /\ pc = "vectorMap"
    /\ subswathIndexMap' = SubswathIndexMapOf(swathBounds, obsMode, shape)
    /\ vectorMap' = EmptyVectorMap(shape)
    /\ iSW' = 1
    /\ pc' = "range"
    /\ UNCHANGED gridConst

\* one pass of "for iSW in range(1, N+1)" over the range records
InterpolateSubswath ==
    /\ pc = "range"
    /\ LET r == RangeInterpolation(vectorMap, RangeRecords, swathBounds[iSW],
                                   subswathIndexMap, iSW, shape)
       IN  /\ vectorMap' = r.value
           /\ IF r.raised THEN pc' = "raised" /\ UNCHANGED iSW
              ELSE IF iSW < NumberOfSubswaths(obsMode) THEN pc' = "range" /\ iSW' = iSW + 1
              ELSE IF Method = "noiseVectorMap" THEN pc' = "azimuth" /\ iSW' = 1
              ELSE pc' = "returned" /\ UNCHANGED iSW
    /\ UNCHANGED <<gridConst, subswathIndexMap>>

\* the azimuth pass scaling the annotated factors along with the raster
ApplyAzimuthVectorInPlace ==
    /\ pc = "azimuth"
    /\ vectorMap' = ApplyBlocks(vectorMap, product.noiseAzimuthVector[iSW], 1)
    /\ product' = [product EXCEPT !.noiseAzimuthVector[iSW] =
                      [n \in DOMAIN @ |->
                          [@[n] EXCEPT !.noiseAzimuthLut =
                              [j \in DOMAIN @ |-> RMul(@[j], <<3, 2>>)]]]]
    /\ IF iSW < NumberOfSubswaths(obsMode) THEN pc' = "azimuth" /\ iSW' = iSW + 1
       ELSE pc' = "returned" /\ UNCHANGED iSW
    /\ UNCHANGED <<obsMode, shape, swathBounds, iRect, args, rawSigma0, noiseEquivalentSigma0,
                   sigma0, coefficients, locals, returned, subswathIndexMap>>

\* one pass of the azimuth loop of noiseVectorMap
ApplyAzimuthVector ==
    /\ pc = "azimuth"
    /\ vectorMap' = ApplyBlocks(vectorMap, product.noiseAzimuthVector[iSW], 1)
    /\ IF iSW < NumberOfSubswaths(obsMode) THEN pc' = "azimuth" /\ iSW' = iSW + 1
       ELSE pc' = "returned" /\ UNCHANGED iSW
    /\ UNCHANGED <<gridConst, subswathIndexMap>>

\* the caller keeps the raster the call returned and calls the method again
CallAgain ==
    /\ pc = "returned"
    /\ returned = <<>>
    /\ returned' = vectorMap
    /\ pc' = "vectorMap"
    /\ UNCHANGED <<obsMode, shape, swathBounds, iSW, iRect, product, args, rawSigma0,
                   noiseEquivalentSigma0, sigma0, coefficients, locals, subswathIndexMap,
                   vectorMap>>

NextGrid == StartVectorMap \/ InterpolateSubswath \/ ApplyAzimuthVector \/ CallAgain

SpecGrid == InitGrid /\ [][NextGrid]_vars

-----------------------------------------------------------------------------
(* Properties of the vector maps *)

\* the number of usable samples of each record selected for subswath k
UsableCounts(k) ==
    LET selected == SelectedRecords(RangeRecords, swathBounds[k])
    IN  [i \in DOMAIN selected |-> Cardinality(ValidSamples(selected[i], ProductIndexMap, k))]

NoUsableSample(k) == \A i \in DOMAIN UsableCounts(k) : UsableCounts(k)[i] = 0

HasValidRecord(k) == \E i \in DOMAIN UsableCounts(k) : UsableCounts(k)[i] > 0

\* every record has no usable sample or enough for its spline, and a subswath
\* with usable samples has them in two records at least
OtherwiseSound ==
    \A k \in Subswaths(obsMode) :
        /\ \A i \in DOMAIN UsableCounts(k) : UsableCounts(k)[i] \notin 1..SplineDegree
        /\ NoUsableSample(k)
              \/ Cardinality({ i \in DOMAIN UsableCounts(k) : UsableCounts(k)[i] > 0 }) >= 2

\* C9 as stated: when every record selected for a subswath has no usable
\* sample the vector map is still built: the method does not raise.
C9_AsStated ==
    (OtherwiseSound /\ \E k \in Subswaths(obsMode) : NoUsableSample(k)) => pc # "raised"

\* C10: in a returned raster a pixel of subswath index 0 is NaN, and a pixel
\* of a subswath that has a valid record is not NaN.
C10_Coverage ==
    pc = "returned" =>
        \A p \in Grid(shape) :
            /\ subswathIndexMap[p] = 0 => IsNaN(vectorMap[p])
            /\ (subswathIndexMap[p] # 0 /\ HasValidRecord(subswathIndexMap[p]))
                  => ~IsNaN(vectorMap[p])

\* noiseVectorMap has returned a raster built from records of which one had
\* nothing usable in some subswath; the raster has pixels of index 0 and
\* pixels between the records' lines
C10_Witness ==
    /\ pc = "returned"
    /\ Method = "noiseVectorMap"
    /\ \E k \in Subswaths(obsMode) :
          \E i \in DOMAIN UsableCounts(k) : UsableCounts(k)[i] = 0
    /\ \E p \in Grid(shape) : subswathIndexMap[p] = 0 /\ IsNaN(vectorMap[p])
    /\ \E p \in Grid(shape) :
          /\ subswathIndexMap[p] = 2
          /\ \A r \in DOMAIN RangeRecords : RangeRecords[r].line # p[1]
          /\ IsFinite(vectorMap[p])

-----------------------------------------------------------------------------
(* orbitAtGivenTime *)

\* state vectors in the orbit table of the largest product
MaxStateVectors == 6

Components == {"x", "y", "z"}

\* the state vector annotated at time t (seconds from the scene centre)
StateVector(t) ==
    [time |-> t,
     position |-> [c \in Components |->
                     IF c = "x" THEN <<t * t, 1>> ELSE IF c = "y" THEN <<t, 1>> ELSE <<7, 1>>],
     velocity |-> [c \in Components |->
                     IF c = "x" THEN <<2 * t, 1>> ELSE IF c = "y" THEN One ELSE Zero]]

\* an orbit table of n state vectors, 10 s apart
OrbitTable(n) == [i \in 1..n |-> StateVector(10 * (i - 1))]

QueryTimes == { <<-3>>, <<4>>, <<15>>, <<20>>, <<33>>, <<4, 33>> }

\* i comes before j in np.argsort(abs(orbitTime - t))
Nearer(orbitTime, t, i, j) ==
    \/ Abs(orbitTime[i] - t) < Abs(orbitTime[j] - t)
    \/ Abs(orbitTime[i] - t) = Abs(orbitTime[j] - t) /\ i < j

\* sorted(np.argsort(abs(orbitTime - t))[:4])
UseIndices(orbitTime, t) ==
    Ascending({ i \in DOMAIN orbitTime :
                  Cardinality({ j \in DOMAIN orbitTime : Nearer(orbitTime, t, j, i) }) < 4 })

\* the values a degree-3 fit through fewer than four points may take away from
\* the points (the least-squares solution is not pinned down by them)
FitValues == {Zero, One}

\* cubic_hermite_interpolation(x, y, xi) for the values cubic_hermite_interpolation
\* can return: with four points the cubic through them; with one to three
\* points a fit that passes through the points
HermiteFits(x, y, xi) ==
    IF Len(x) = 4 THEN {PolynomialThrough(x, y, xi)}
    ELSE IF \E i \in DOMAIN x : x[i] = xi
         THEN { y[i] : i \in { j \in DOMAIN x : x[j] = xi } }
    ELSE FitValues

InitOrbit ==
    /\ pc = "orbit"
    /\ obsMode = "IW"
    /\ shape = <<>>
    /\ swathBounds = <<>>
    /\ iSW = 0
    /\ iRect = 0
    /\ subswathIndexMap = <<>>
    /\ \E n \in 0..MaxStateVectors : product = [stateVectors |-> OrbitTable(n)]
    /\ args \in { [relativeAzimuthTime |-> q] : q \in QueryTimes }
    /\ vectorMap = <<>>
    /\ rawSigma0 = <<>>
    /\ noiseEquivalentSigma0 = <<>>
    /\ sigma0 = <<>>
    /\ coefficients = <<>>
    /\ locals = [positionXYZ |-> <<>>, velocityXYZ |-> <<>>]
    /\ returned = <<>>

orbitConst == <<obsMode, shape, swathBounds, iSW, iRect, subswathIndexMap, product, args,
                vectorMap, rawSigma0, noiseEquivalentSigma0, sigma0, coefficients>>

\* one pass of "for t in relativeAzimuthTime"
InterpolateOrbitAt ==
    /\ pc = "orbit"
    /\ Len(locals.positionXYZ) < Len(args.relativeAzimuthTime)
    /\ LET t == args.relativeAzimuthTime[Len(locals.positionXYZ) + 1]
           orbitTime == [i \in DOMAIN product.stateVectors |-> product.stateVectors[i].time]
           useIndices == UseIndices(orbitTime, t)
           x == [i \in DOMAIN useIndices |-> orbitTime[useIndices[i]]]
           y(field, c) == [i \in DOMAIN useIndices |-> product.stateVectors[useIndices[i]][field][c]]
       IN  IF Len(useIndices) = 0
           THEN pc' = "raised" /\ UNCHANGED locals
           ELSE /\ \E position \in [Components -> UNION { HermiteFits(x, y("position", c), t) : c \in Components }],
                      velocity \in [Components -> UNION { HermiteFits(x, y("velocity", c), t) : c \in Components }] :
                      /\ \A c \in Components :
                            /\ position[c] \in HermiteFits(x, y("position", c), t)
                            /\ velocity[c] \in HermiteFits(x, y("velocity", c), t)
                      /\ locals' = [positionXYZ |-> Append(locals.positionXYZ, position),
                                    velocityXYZ |-> Append(locals.velocityXYZ, velocity)]
                /\ pc' = "orbit"
    /\ UNCHANGED <<orbitConst, returned>>

\* np.squeeze of a list of one element drops the list
Squeeze(list) == IF Len(list) = 1 THEN list[1] ELSE list

ReturnOrbit ==
    /\ pc = "orbit"
    /\ Len(locals.positionXYZ) = Len(args.relativeAzimuthTime)
    /\ returned' = [relativeAzimuthTime |-> args.relativeAzimuthTime,
                    positionXYZ |-> Squeeze(locals.positionXYZ),
                    velocityXYZ |-> Squeeze(locals.velocityXYZ)]
    /\ pc' = "returned"
    /\ UNCHANGED <<orbitConst, locals>>

NextOrbit == InterpolateOrbitAt \/ ReturnOrbit

SpecOrbit == InitOrbit /\ [][NextOrbit]_vars

\* C11 as stated: with fewer than 4 state vectors orbitAtGivenTime fails and
\* returns no position or velocity.
C11_AsStated ==
    Len(product.stateVectors) < 4 => (pc # "returned" /\ returned = <<>>)

-----------------------------------------------------------------------------
(* azimuthFmRateAtGivenTime *)

\* length of the longest time vector passed to azimuthFmRateAtGivenTime
MaxTimes == 2

\* azimuthFmRate records of the largest annotation
MaxFmRates == 2

SeqsUpTo(S, n) == UNION { [1..k -> S] : k \in 0..n }

\* the k-th azimuthFmRate record: azimuth time relative to the scene centre, t0
\* and the three polynomial coefficients
FmRateRecord(k) ==
    [azimuthTime |-> 10 * (k - 1), t0 |-> 1, azimuthFmRatePolynomial |-> <<-2000 - k, 3, -1>>]

FmRateList(n) == [k \in 1..n |-> FmRateRecord(k)]

\* the mutation of SameSize that accepts every pair of vectors
SameSizeAlways(a, b) == TRUE

\* relativeAzimuthTime.size == slantRangeTime.size, for vectors
SameSize(a, b) == Len(a) = Len(b)

\* np.interp(t, xp, fp) for ascending xp: linear between the nodes, the end
\* values outside them
Interp(t, xp, fp) ==
    IF t <= xp[1] THEN <<fp[1], 1>>
    ELSE IF t >= xp[Len(xp)] THEN <<fp[Len(fp)], 1>>
    ELSE LET i == CHOOSE j \in 1..(Len(xp) - 1) : xp[j] <= t /\ t < xp[j + 1]
         IN  RAdd(<<fp[i], 1>>, Rat((fp[i + 1] - fp[i]) * (t - xp[i]), xp[i + 1] - xp[i]))

\* fp at one slant range time, over the records
FmRatePolynomial(records, tau) ==
    [k \in DOMAIN records |->
        LET p == records[k].azimuthFmRatePolynomial
            d == tau - records[k].t0
        IN  p[1] + p[2] * d + p[3] * d * d]

InitFmRate ==
    /\ pc = "fmRate"
    /\ obsMode = "IW"
    /\ shape = <<>>
    /\ swathBounds = <<>>
    /\ iSW = 0
    /\ iRect = 0
    /\ subswathIndexMap = <<>>
    /\ \E n \in 0..MaxFmRates : product = [azimuthFmRate |-> FmRateList(n)]
    /\ args \in [relativeAzimuthTime : SeqsUpTo({-5, 5, 15}, MaxTimes),
                 slantRangeTime : SeqsUpTo({1, 2}, MaxTimes)]
    /\ vectorMap = <<>>
    /\ rawSigma0 = <<>>
    /\ noiseEquivalentSigma0 = <<>>
    /\ sigma0 = <<>>
    /\ coefficients = <<>>
    /\ locals = <<>>
    /\ returned = <<>>

\* the check of the sizes, then the import of the records
CheckSizes ==
    /\ pc = "fmRate"
    /\ IF ~SameSize(args.relativeAzimuthTime, args.slantRangeTime)
       THEN /\ pc' = "raised"
            /\ returned' = [raised |-> "ValueError",
                            message |-> "relativeAzimuthTime and slantRangeTime must have the same dimension"]
            /\ UNCHANGED locals
       ELSE /\ pc' = "fmRateLoop"
            /\ locals' = [azimuthFmRate |-> product.azimuthFmRate,
                          azimuthFmRateAtGivenTime |-> <<>>]
            /\ UNCHANGED returned
    /\ UNCHANGED orbitConst

\* one pass of "for tt in zip(relativeAzimuthTime, slantRangeTime)"
FmRateAt ==
    /\ pc = "fmRateLoop"
    /\ Len(locals.azimuthFmRateAtGivenTime)
          < MinOf({Len(args.relativeAzimuthTime), Len(args.slantRangeTime)})
    /\ LET i == Len(locals.azimuthFmRateAtGivenTime) + 1
           xp == [k \in DOMAIN locals.azimuthFmRate |-> locals.azimuthFmRate[k].azimuthTime]
           fp == FmRatePolynomial(locals.azimuthFmRate, args.slantRangeTime[i])
       IN  IF Len(xp) = 0
           THEN /\ pc' = "raised"
                /\ returned' = [raised |-> "ValueError", message |-> "array of sample points is empty"]
                /\ UNCHANGED locals
           ELSE /\ locals' = [locals EXCEPT !.azimuthFmRateAtGivenTime =
                                Append(@, Interp(args.relativeAzimuthTime[i], xp, fp))]
                /\ UNCHANGED <<pc, returned>>
    /\ UNCHANGED orbitConst

ReturnFmRate ==
    /\ pc = "fmRateLoop"
    /\ Len(locals.azimuthFmRateAtGivenTime)
          = MinOf({Len(args.relativeAzimuthTime), Len(args.slantRangeTime)})
    /\ returned' = Squeeze(locals.azimuthFmRateAtGivenTime)
    /\ pc' = "returned"
    /\ UNCHANGED <<orbitConst, locals>>

NextFmRate == CheckSizes \/ FmRateAt \/ ReturnFmRate

SpecFmRate == InitFmRate /\ [][NextFmRate]_vars

SizeErrorRaised ==
    /\ pc = "raised"
    /\ returned.message = "relativeAzimuthTime and slantRangeTime must have the same dimension"

\* C12: azimuthFmRateAtGivenTime raises its size error, with nothing imported or
\* computed, exactly when relativeAzimuthTime and slantRangeTime differ in
\* length; with equal lengths that error is never raised.
C12_SizeCheck ==
    /\ pc # "fmRate" =>
          (SizeErrorRaised <=> Len(args.relativeAzimuthTime) # Len(args.slantRangeTime))
    /\ SizeErrorRaised => locals = <<>>
    /\ Len(args.relativeAzimuthTime) # Len(args.slantRangeTime) => locals = <<>>

C12_Witness ==
    /\ SizeErrorRaised
    /\ Len(args.relativeAzimuthTime) = 2
    /\ Len(args.slantRangeTime) = 1
    /\ Len(product.azimuthFmRate) = 2

-----------------------------------------------------------------------------
(* The shift search of noiseVectorMap(lutShift=True) for one noise record *)

\* "ni < 10"
MaxShiftEstimations == 10

\* "deltaShift > 1e-2"
ShiftTolerance == <<1, 100>>

\* what est_shift may hand back: any float, finite or not
ShiftValues == {NaN, PosInf, NegInf, Zero, <<1, 200>>, <<1, 2>>, One, <<-1, 1>>}

\* the mutation of SearchContinues that tests the count after the estimation
SearchContinuesInclusive(deltaShift, ni) ==
    RLt(ShiftTolerance, deltaShift) /\ ni <= MaxShiftEstimations

\* the condition of "while deltaShift > 1e-2 and ni < 10"
SearchContinues(deltaShift, ni) ==
    RLt(ShiftTolerance, deltaShift) /\ ni < MaxShiftEstimations

\* "xShiftPixel, deltaShift, ni = 0, np.inf, 0"
InitShift ==
    /\ pc = "shiftSearch"
    /\ obsMode = "IW"
    /\ shape = <<>>
    /\ swathBounds = <<>>
    /\ iSW = 0
    /\ iRect = 0
    /\ subswathIndexMap = <<>>
    /\ product = <<>>
    /\ args = [lutShift |-> TRUE]
    /\ vectorMap = <<>>
    /\ rawSigma0 = <<>>
    /\ noiseEquivalentSigma0 = <<>>
    /\ sigma0 = <<>>
    /\ coefficients = <<>>
    /\ locals = [xShiftPixel |-> Zero, deltaShift |-> PosInf, ni |-> 0]
    /\ returned = <<>>

\* one pass of the while loop; est_shift either raises or hands back a float
EstimateShift ==
    /\ pc = "shiftSearch"
    /\ SearchContinues(locals.deltaShift, locals.ni)
    /\ \/ /\ pc' = "raised"
          /\ locals' = [locals EXCEPT !.ni = @ + 1]
       \/ /\ \E deltaShift \in ShiftValues :
                locals' = [xShiftPixel |-> RAdd(locals.xShiftPixel, deltaShift),
                           deltaShift |-> deltaShift,
                           ni |-> locals.ni + 1]
          /\ pc' = "shiftSearch"
    /\ UNCHANGED <<orbitConst, returned>>

\* the condition of the while loop is false
LeaveShiftSearch ==
    /\ pc = "shiftSearch"
    /\ ~SearchContinues(locals.deltaShift, locals.ni)
    /\ pc' = "shifted"
    /\ UNCHANGED <<orbitConst, locals, returned>>

NextShift == EstimateShift \/ LeaveShiftSearch

SpecShift == InitShift /\ [][NextShift]_vars

\* the interpreter keeps executing the loop: a step that can be taken is taken
SpecShiftFair == SpecShift /\ WF_vars(NextShift)

\* C13: the shift search ends, and est_shift is called at most 10 times in it,
\* whatever est_shift hands back (NaN, infinities, values that do not converge).
C13_ShiftSearchTerminates ==
    /\ <>(pc \in {"shifted", "raised"})
    /\ [](locals.ni <= MaxShiftEstimations)

\* the search ended by the count, not by convergence
C13_Witness ==
    /\ pc = "shifted"
    /\ locals.ni = MaxShiftEstimations
    /\ RLt(ShiftTolerance, locals.deltaShift)

-----------------------------------------------------------------------------
(* Properties of modifiedNoiseEquivalentSigma0Map *)

\* the raw noise of the call, as rawNoiseEquivalentSigma0Map returns it
RawNoise ==
    RawNoiseEquivalentSigma0Map(product.noiseVectorMap[LutShift(args.algorithm)],
                                product.calibrationVectorMap, ProductIndexMap, obsMode)

TimesGain(nesz, gain) == [p \in DOMAIN nesz |-> RMul(nesz[p], gain[p])]

\* C14: the denoising only reads the coefficients: no step changes the stored
\* parameter file, and after the import no step changes the scaling factors,
\* the offsets or the curves that were imported from it.
C14_CoefficientsReadOnly ==
    [][/\ product'.denoParams = product.denoParams
       /\ pc # "scalloped" => coefficients' = coefficients
       /\ pc = "scalloped" => coefficients' = ImportDenoisingCoefficients(product, obsMode)]_vars

C14_Witness ==
    /\ pc = "done"
    /\ args.algorithm = "NERSC"
    /\ AdaptiveApplies(args, product)
    /\ coefficients = ImportDenoisingCoefficients(product, obsMode)
    /\ \E k \in Subswaths(obsMode) :
          /\ coefficients.noiseScalingParameters[k] \notin {One, Zero}
          /\ coefficients.powerBalancingParameters[k] # Zero

\* C15: the step after the raw noise multiplies it by the scalloping gain exactly
\* when 2.5 <= IPF version < 2.9, and leaves it as it is otherwise; only the
\* NERSC algorithm takes that step, and under ESA the noise is the raw noise.
C15_ScallopingGate ==
    [][/\ pc = "rawNoise" =>
             /\ args.algorithm = "NERSC"
             /\ noiseEquivalentSigma0' =
                   IF product.IPFversion >= 250 /\ product.IPFversion < 290
                   THEN TimesGain(noiseEquivalentSigma0, product.scallopingGainMap)
                   ELSE noiseEquivalentSigma0
       /\ (args.algorithm = "ESA" /\ pc # "raw") => noiseEquivalentSigma0' = noiseEquivalentSigma0
       /\ (args.algorithm = "ESA" /\ pc = "raw") => noiseEquivalentSigma0' = RawNoise]_vars

C15_Witness ==
    /\ pc = "scalloped"
    /\ product.IPFversion = 289
    /\ noiseEquivalentSigma0 = TimesGain(RawNoise, product.scallopingGainMap)
    /\ noiseEquivalentSigma0 # RawNoise

\* C16: the adaptive scaling runs only with localNoisePowerCompensation set on
\* an HV or VH band; in every other call the step leaves the scaled and
\* balanced noise as it is and cannot fail.
C16_AdaptiveGate ==
    [][pc = "balanced" =>
          \/ args.localNoisePowerCompensation /\ product.polarization \in {"HV", "VH"}
          \/ /\ noiseEquivalentSigma0' = noiseEquivalentSigma0
             /\ noiseEquivalentSigma0' =
                   ScaleAndBalance(ApplyScallopingGain(RawNoise, product.scallopingGainMap,
                                                       product.IPFversion),
                                   subswathIndexMap, coefficients, obsMode)
             /\ pc' = "noise"]_vars

C16_Witness ==
    /\ pc = "noise"
    /\ args.algorithm = "NERSC"
    /\ args.localNoisePowerCompensation
    /\ product.polarization \in {"HH", "VV"}
    /\ noiseEquivalentSigma0 =
          ScaleAndBalance(ApplyScallopingGain(RawNoise, product.scallopingGainMap,
                                              product.IPFversion),
                          subswathIndexMap, coefficients, obsMode)
    /\ noiseEquivalentSigma0 # RawNoise

-----------------------------------------------------------------------------
(* The subswath iterations of the vector maps, taken in any order *)

\* the azimuth blocks import_noiseVector makes up for IPF < 2.9: for every
\* subswath one block over the whole image, with factors 1.0 on its first and
\* last line
ImportedBlocks ==
    [k \in Subswaths("IW") |->
        <<[firstAzimuthLine |-> 0, lastAzimuthLine |-> GridShape[1] - 1,
           firstRangeSample |-> 0, lastRangeSample |-> GridShape[2] - 1,
           isList |-> TRUE,
           line |-> <<0, GridShape[1] - 1>>,
           noiseAzimuthLut |-> <<One, One>>]>>]

\* annotated blocks (IPF >= 2.9) that reach one pixel beyond their subswath,
\* all with the same single factor
StrayBlocks ==
    [k \in Subswaths("IW") |->
        <<[firstAzimuthLine |-> 0, lastAzimuthLine |-> GridLines - 1,
           firstRangeSample |-> (k - 1) * SwathWidth, lastRangeSample |-> k * SwathWidth,
           isList |-> FALSE,
           line |-> <<0>>,
           noiseAzimuthLut |-> <<<<3, 2>>>>]>>]

BlockLayouts == {AzimuthBlocks(FALSE), AzimuthBlocks(TRUE), ImportedBlocks, StrayBlocks}

\* the mutation of MaskedBy that lets a subswath write the whole image
MaskedByNothing(idx, k) == DOMAIN idx

\* valid = (subswathIndexMap==iSW)
MaskedBy(idx, k) == { p \in DOMAIN idx : idx[p] = k }

\* the pixels of noiseVectorMap[yBins, xs:xe+1], over the blocks of a subswath
BlockPixels(blocks, shp) == { p \in Grid(shp) : \E n \in DOMAIN blocks : InBlock(blocks[n], p) }

\* noiseVectorMap[valid] = interpFunc(...).T[valid]
AssignMasked(map, interpolated, valid) ==
    [p \in DOMAIN map |-> IF p \in valid THEN interpolated[p] ELSE map[p]]

\* the range pass in the order of the code, from subswath k on
RECURSIVE RangePass(_, _, _, _, _, _)
RangePass(map, records, bounds, idx, k, shp) ==
    IF k > Len(bounds) THEN map
    ELSE RangePass(RangeInterpolation(map, records, bounds[k], idx, k, shp).value,
                   records, bounds, idx, k + 1, shp)

\* the azimuth pass in the order of the code, from subswath k on
RECURSIVE AzimuthPass(_, _, _)
AzimuthPass(map, blocks, k) ==
    IF k > Len(blocks) THEN map
    ELSE AzimuthPass(ApplyBlocks(map, blocks[k], 1), blocks, k + 1)

\* what the method returns when its loops run in the order of the code
VectorMapInOrder ==
    LET idx == SubswathIndexMapOf(swathBounds, obsMode, shape)
        ranged == RangePass(EmptyVectorMap(shape), RangeRecords, swathBounds, idx, 1, shape)
    IN  IF Method = "noiseVectorMap" THEN AzimuthPass(ranged, product.noiseAzimuthVector, 1)
        ELSE ranged

InitAnyOrder ==
    /\ pc = "vectorMap"
    /\ obsMode = "IW"
    /\ shape = GridShape
    /\ swathBounds = GridBounds
    /\ \E pat \in [Subswaths("IW") -> {<<"F", "F", "F">>, <<"F", "A", "F">>}],
          blocks \in BlockLayouts :
          /\ product = [calibrationVector |-> SparseRecords(pat),
                        noiseRangeVector |-> SparseRecords(pat),
                        noiseAzimuthVector |-> blocks]
          /\ args \in { [method |-> m, lutShift |-> FALSE] :
                          m \in IF blocks = AzimuthBlocks(FALSE)
                                 THEN {"calibrationVectorMap", "noiseVectorMap"}
                                 ELSE {"noiseVectorMap"} }
    /\ iSW = 0
    /\ iRect = 0
    /\ subswathIndexMap = <<>>
    /\ vectorMap = <<>>
    /\ locals = [pending |-> {}, written |-> {}]
    /\ returned = <<>>
    /\ rawSigma0 = <<>>
    /\ noiseEquivalentSigma0 = <<>>
    /\ sigma0 = <<>>
    /\ coefficients = <<>>

anyOrderConst == <<obsMode, shape, swathBounds, iRect, product, args, rawSigma0,
                   noiseEquivalentSigma0, sigma0, coefficients, returned>>

\* the lines before the subswath loop; every subswath is still to be done
StartAnyOrder ==
    /\ pc = "vectorMap"
    /\ subswathIndexMap' = SubswathIndexMapOf(swathBounds, obsMode, shape)
    /\ vectorMap' = EmptyVectorMap(shape)
    /\ locals' = [pending |-> Subswaths(obsMode), written |-> {}]
    /\ pc' = "range"
    /\ UNCHANGED <<anyOrderConst, iSW>>

\* the body of the range loop for one of the subswaths still to be done
InterpolateAnySubswath ==
    /\ pc = "range"
    /\ \E k \in locals.pending :
          LET r == RangeInterpolation(vectorMap, RangeRecords, swathBounds[k],
                                      subswathIndexMap, k, shape)
              valid == MaskedBy(subswathIndexMap, k)
              left == locals.pending \ {k}
          IN  /\ iSW' = k
              /\ vectorMap' = AssignMasked(vectorMap, r.value, valid)
              /\ IF r.raised THEN pc' = "raised" /\ UNCHANGED locals
                 ELSE IF left # {}
                      THEN pc' = "range" /\ locals' = [pending |-> left, written |-> valid]
                 ELSE IF Method = "noiseVectorMap"
                      THEN pc' = "azimuth"
                           /\ locals' = [pending |-> Subswaths(obsMode), written |-> valid]
                 ELSE pc' = "returned" /\ locals' = [pending |-> {}, written |-> valid]
    /\ UNCHANGED <<anyOrderConst, subswathIndexMap>>

\* the body of the azimuth loop for one of the subswaths still to be done
ApplyAnyAzimuthVector ==
    /\ pc = "azimuth"
    /\ \E k \in locals.pending :
          /\ iSW' = k
          /\ vectorMap' = ApplyBlocks(vectorMap, product.noiseAzimuthVector[k], 1)
          /\ locals' = [pending |-> locals.pending \ {k},
                        written |-> BlockPixels(product.noiseAzimuthVector[k], shape)]
          /\ pc' = IF locals.pending = {k} THEN "returned" ELSE "azimuth"
    /\ UNCHANGED <<anyOrderConst, subswathIndexMap>>

NextAnyOrder == StartAnyOrder \/ InterpolateAnySubswath \/ ApplyAnyAzimuthVector

SpecAnyOrder == InitAnyOrder /\ [][NextAnyOrder]_vars

\* the pixels whose value a step changed
Changed == { p \in Grid(shape) : vectorMap'[p] # vectorMap[p] }

\* C17 as stated: every iteration, of the range loops and of the azimuth loop,
\* writes only pixels whose subswath index is that of the iteration.
C17_AsStated ==
    locals.written \subseteq { p \in Grid(shape) : subswathIndexMap[p] = iSW }

\* C17: an iteration of the range loop writes only pixels whose subswath index
\* is its own; an iteration of the azimuth loop writes the pixels of the blocks
\* annotated for its subswath, whatever their subswath index; the iterations
\* of each loop in any order yield the raster the code's order yields.
C17_Iterations ==
    [][/\ pc = "range" =>
             /\ Changed \subseteq { p \in Grid(shape) : subswathIndexMap[p] = iSW' }
             /\ locals'.written = locals.written
                   \/ locals'.written = { p \in Grid(shape) : subswathIndexMap[p] = iSW' }
       /\ pc = "azimuth" =>
             /\ Changed \subseteq locals'.written
             /\ locals'.written =
                   { p \in Grid(shape) :
                       \E n \in DOMAIN product.noiseAzimuthVector[iSW'] :
                          LET blk == product.noiseAzimuthVector[iSW'][n]
                          IN  /\ p[1] \in blk.firstAzimuthLine..blk.lastAzimuthLine
                              /\ p[2] \in blk.firstRangeSample..blk.lastRangeSample }
       /\ pc' = "returned" => vectorMap' = VectorMapInOrder]_vars

\* the loops were run against the order of the code, with blocks that overlap
C17_Witness ==
    /\ pc = "returned"
    /\ Method = "noiseVectorMap"
    /\ iSW = 1
    /\ product.noiseAzimuthVector = StrayBlocks
    /\ vectorMap = VectorMapInOrder
    /\ \E p \in Grid(shape) : subswathIndexMap[p] = 2 /\ p \in locals.written

-----------------------------------------------------------------------------
(* Annotations sampled from a polynomial of the line and the pixel *)

\* the highest degree of the sampled polynomials, in either variable
MaxDegree == 3

RECURSIVE Pow(_, _)
Pow(b, e) == IF e = 0 THEN 1 ELSE b * Pow(b, e - 1)

\* a positive polynomial of degree dl in the line y and dp in the pixel x
SurfaceValue(y, x, dl, dp) ==
    3 + Pow(x, dp) + Pow(y, dl) + (IF dl > 0 /\ dp > 0 THEN x * y ELSE 0)

\* the records that annotate the polynomial on the given lines
PolynomialRecords(lines, dl, dp) ==
    [r \in DOMAIN lines |->
        [line |-> lines[r],
         pixel |-> SamplePixels,
         value |-> [i \in DOMAIN SamplePixels |->
                      <<SurfaceValue(lines[r], SamplePixels[i], dl, dp), 1>>]]]

\* records from the first line to the last, or from the second line on
RecordLayouts == {RecordLines, <<1, GridLines - 1>>}

InitRoundTrip ==
    /\ pc = "vectorMap"
    /\ obsMode = "IW"
    /\ shape = GridShape
    /\ swathBounds = GridBounds
    /\ \E lines \in RecordLayouts, dl \in 0..MaxDegree, dp \in 0..MaxDegree :
          product = [calibrationVector |-> PolynomialRecords(lines, dl, dp),
                     noiseRangeVector |-> PolynomialRecords(lines, dl, dp),
                     noiseAzimuthVector |-> ImportedBlocks]
    /\ args \in { [method |-> m, lutShift |-> FALSE] :
                    m \in {"calibrationVectorMap", "noiseVectorMap"} }
    /\ iSW = 0
    /\ iRect = 0
    /\ subswathIndexMap = <<>>
    /\ vectorMap = <<>>
    /\ locals = <<>>
    /\ returned = <<>>
    /\ rawSigma0 = <<>>
    /\ noiseEquivalentSigma0 = <<>>
    /\ sigma0 = <<>>
    /\ coefficients = <<>>

SpecRoundTrip == InitRoundTrip /\ [][NextGrid]_vars

\* the lines the range records of the call are annotated on
AnnotatedLines == [r \in DOMAIN RangeRecords |-> RangeRecords[r].line]

\* the returned raster is the polynomial at every pixel of a subswath on the
\* given lines
Reconstructed(dl, dp, onLines) ==
    \A p \in Grid(shape) :
        (subswathIndexMap[p] \in Subswaths(obsMode) /\ p[1] \in onLines) =>
            vectorMap[p] = <<SurfaceValue(p[1], p[2], dl, dp), 1>>

-----------------------------------------------------------------------------
(* compute_rqm *)

\* the num_px argument of the modelled calls
NumPx == 1

\* every subswath is NumPx + 1 pixels wide, on line 0
RqmBounds ==
    [k \in Subswaths("IW") |->
        <<Rect(0, (k - 1) * (NumPx + 1), 0, k * (NumPx + 1) - 1)>>]

RqmPixels == [i \in 1..(NumberOfSubswaths("IW") * (NumPx + 1)) |-> i - 1]

\* the sigma0 values of the samples: exactly representable numbers and NaN
RqmValues == {One, <<2, 1>>, NaN}

\* the square root of a fraction that is a square
ExactRoot(r) ==
    <<CHOOSE i \in 0..r[1] : i * i = r[1], CHOOSE j \in 1..r[2] : j * j = r[2]>>

\* np.nanmean(s0[v][valid])
NanMeanAt(values, valid) ==
    NanMean([i \in valid |-> values[i]])

\* np.nanstd(s0[v][valid])
NanStdAt(values, valid) ==
    LET m == NanMeanAt(values, valid)
        finite == { i \in valid : ~IsNaN(values[i]) }
        squares == [i \in finite |-> RMul(RSub(values[i], m), RSub(values[i], m))]
    IN  IF finite = {} THEN NaN
        ELSE ExactRoot(RDiv(SumOver(squares, finite), <<Cardinality(finite), 1>>))

RAbs(a) == IF IsFinite(a) THEN <<Abs(a[1]), a[2]>> ELSE IF IsNaN(a) THEN NaN ELSE PosInf

\* q of one record at the boundary after range sample lrs
RangeQuality(pixels, values, lrs, numPx) ==
    LET valid2a == { i \in DOMAIN pixels : pixels[i] >= lrs - numPx /\ pixels[i] <= lrs }
        valid2b == { i \in DOMAIN pixels : pixels[i] >= lrs + 1 /\ pixels[i] <= lrs + numPx + 1 }
    IN  RDiv(RAbs(RSub(NanMeanAt(values, valid2a), NanMeanAt(values, valid2b))),
             RAdd(NanStdAt(values, valid2a), NanStdAt(values, valid2b)))

\* q_subswath of one subswath: over its rectangles, then over the records on
\* the lines of the rectangle
RECURSIVE QualityOfRects(_, _, _, _, _, _)
QualityOfRects(bound, n, lines, pixels, s0, numPx) ==
    IF n > Len(bound) THEN <<>>
    ELSE LET valid1 == Ascending({ v \in DOMAIN lines :
                                     /\ lines[v] >= bound[n].firstAzimuthLine
                                     /\ lines[v] <= bound[n].lastAzimuthLine })
         IN  [j \in DOMAIN valid1 |->
                 RangeQuality(pixels[valid1[j]], s0[valid1[j]], bound[n].lastRangeSample, numPx)]
             \o QualityOfRects(bound, n + 1, lines, pixels, s0, numPx)

\* the object either has no swath_ids attribute, as Sentinel1Image builds it, or
\* one set by the caller to the subswath numbers
InitRqm ==
    /\ pc = "rqm"
    /\ obsMode = "IW"
    /\ shape = <<1, Len(RqmPixels)>>
    /\ swathBounds = RqmBounds
    /\ iSW = 0
    /\ iRect = 0
    /\ subswathIndexMap = <<>>
    /\ product \in [swath_ids : {<<>>, <<1, 2, 3>>}]
    /\ args \in [nrv_line : {<<0>>}, nrv_pixel : {<<RqmPixels>>},
                 s0 : { <<v>> : v \in [DOMAIN RqmPixels -> RqmValues] },
                 num_px : {NumPx}]
    /\ vectorMap = <<>>
    /\ rawSigma0 = <<>>
    /\ noiseEquivalentSigma0 = <<>>
    /\ sigma0 = <<>>
    /\ coefficients = <<>>
    /\ locals = [q_all |-> <<>>]
    /\ returned = <<>>

\* one pass of "for swid in self.swath_ids[:-1]"
QualityOfSubswath ==
    /\ pc = "rqm"
    /\ IF product.swath_ids = <<>>
       THEN /\ pc' = "raised"
            /\ returned' = [raised |-> "AttributeError", message |-> "swath_ids"]
            /\ UNCHANGED locals
       ELSE /\ Len(locals.q_all) < Len(product.swath_ids) - 1
            /\ LET swid == product.swath_ids[Len(locals.q_all) + 1]
               IN  locals' = [q_all |-> Append(locals.q_all,
                                 QualityOfRects(swathBounds[swid], 1, args.nrv_line,
                                                args.nrv_pixel, args.s0, args.num_px))]
            /\ UNCHANGED <<pc, returned>>
    /\ UNCHANGED orbitConst

ReturnRqm ==
    /\ pc = "rqm"
    /\ product.swath_ids # <<>>
    /\ Len(locals.q_all) = Len(product.swath_ids) - 1
    /\ returned' = locals.q_all
    /\ pc' = "returned"
    /\ UNCHANGED <<orbitConst, locals>>

NextRqm == QualityOfSubswath \/ ReturnRqm

SpecRqm == InitRqm /\ [][NextRqm]_vars

\* the samples of the record on the two sides of the boundary after subswath k
SideValues(k, side) ==
    { args.s0[1][i] : i \in { j \in DOMAIN RqmPixels :
                                RqmPixels[j] \div (NumPx + 1) = k - 1 + side } }

\* C19 as stated: the metric is exactly 0 where sigma0 is the same on both sides
\* of an interswath boundary, and finite and strictly positive where sigma0
\* steps from one level to another at the boundary.
C19_AsStated ==
    pc = "returned" =>
       \A k \in DOMAIN returned :
          /\ (\E u \in RqmValues \ {NaN} : SideValues(k, 0) = {u} /\ SideValues(k, 1) = {u})
                => returned[k][1] = Zero
          /\ (\E u, v \in RqmValues \ {NaN} :
                 u # v /\ SideValues(k, 0) = {u} /\ SideValues(k, 1) = {v})
                => (IsFinite(returned[k][1]) /\ RLt(Zero, returned[k][1]))

-----------------------------------------------------------------------------
(* Two successive calls of a vector map method *)

-----------------------------------------------------------------------------
(* The tolerance of the shift search *)

\* C21 as stated: a shift search that stops before its 10th estimation stops
\* with a last increment of magnitude below 0.01 pixel.
C21_AsStated ==
    (pc = "shifted" /\ locals.ni < MaxShiftEstimations /\ IsFinite(locals.deltaShift)) =>
        RLt(RAbs(locals.deltaShift), ShiftTolerance)

-----------------------------------------------------------------------------
(* Sentinel1CalVal.experiment_powerBalancing, for one noise vector line *)

\* pixels per subswath on the processed line
BalanceWidth == 4

\* crop = {'IW':400, 'EW':200}[self.obsMode], in units of the modelled pixels
CropOf(mode) == 1

BalanceBounds ==
    [k \in Subswaths("IW") |-> <<Rect(0, (k - 1) * BalanceWidth, 0, k * BalanceWidth - 1)>>]

\* valid2: the positions of the samples of subswath k away from its edges
CroppedSamples(pixels, bound, crop) ==
    { i \in DOMAIN pixels : /\ pixels[i] >= bound[1].firstRangeSample + crop
                            /\ pixels[i] <= bound[1].lastRangeSample - crop }

IntSum(f, S) == SumOver([i \in S |-> <<f[i], 1>>], S)

\* np.polyfit(x, y, deg=1) on the samples at the positions in S, two or more:
\* <<slope, intercept>> of the least-squares line
LinearFit(x, y, S) ==
    LET n  == <<Cardinality(S), 1>>
        sx == IntSum(x, S)
        sy == SumOver(y, S)
        sxx == IntSum([i \in S |-> x[i] * x[i]], S)
        sxy == SumOver([i \in S |-> RMul(<<x[i], 1>>, y[i])], S)
        slope == RDiv(RSub(RMul(n, sxy), RMul(sx, sy)), RSub(RMul(n, sxx), RMul(sx, sx)))
    IN  <<slope, RDiv(RSub(sy, RMul(slope, sx)), n)>>

\* slope * pixel + intercept
FitAt(fit, pixel) == RAdd(RMul(fit[1], <<pixel, 1>>), fit[2])

\* power2 - power1 at the last range sample of subswath i
Discontinuity(fits, bounds, i) ==
    RSub(FitAt(fits[i + 1], bounds[i][1].lastRangeSample),
         FitAt(fits[i], bounds[i][1].lastRangeSample))

\* np.cumsum of [0, d1, d2, ...]
RECURSIVE CumulatedPower(_, _, _)
CumulatedPower(fits, bounds, i) ==
    IF i = 1 THEN Zero
    ELSE RAdd(CumulatedPower(fits, bounds, i - 1), Discontinuity(fits, bounds, i - 1))

\* powerBias = np.nanmean((blockRN0 - blockN0)[valid3])
PowerBias(pixels, blockRN0, blockN0, bounds, crop) ==
    LET valid3 == { i \in DOMAIN pixels : pixels[i] >= bounds[2][1].firstRangeSample + crop }
    IN  NanMean([i \in valid3 |-> RSub(blockRN0[i], blockN0[i])])

\* the residuals sigma0 - corrected noise at the usable samples
Residuals == {Zero, One, <<2, 1>>}

\* the samples of a line: every pixel, or none in the second subswath
BalancePixels ==
    { [i \in 1..(NumberOfSubswaths("IW") * BalanceWidth) |-> i - 1],
      [i \in 1..((NumberOfSubswaths("IW") - 1) * BalanceWidth) |->
          IF i <= BalanceWidth THEN i - 1 ELSE i - 1 + BalanceWidth] }

InitBalance ==
    /\ pc = "fit"
    /\ obsMode = "IW"
    /\ swathBounds = BalanceBounds
    /\ shape = <<1, NumberOfSubswaths("IW") * BalanceWidth>>
    /\ iSW = 1
    /\ iRect = 0
    /\ subswathIndexMap = <<>>
    /\ \E pixels \in BalancePixels, raw \in {One, <<2, 1>>} :
          \E res \in [{ i \in DOMAIN pixels : (pixels[i] % BalanceWidth) \in {1, 2} } -> Residuals] :
             product = [nrv_pixel |-> pixels,
                        nrv_nesz |-> [i \in DOMAIN pixels |-> raw],
                        nrv_nesz_corrected |-> [i \in DOMAIN pixels |-> One],
                        nrv_sigma_zero |-> [i \in DOMAIN pixels |->
                                              IF i \in DOMAIN res THEN RAdd(One, res[i]) ELSE One]]
    /\ args = <<>>
    /\ vectorMap = <<>>
    /\ rawSigma0 = <<>>
    /\ noiseEquivalentSigma0 = <<>>
    /\ sigma0 = <<>>
    /\ coefficients = <<>>
    /\ locals = [fitCoefficients |-> <<>>,
                 blockN0 |-> [i \in DOMAIN product.nrv_pixel |-> NaN],
                 blockRN0 |-> [i \in DOMAIN product.nrv_pixel |-> NaN]]
    /\ returned = <<>>

balanceConst == <<obsMode, shape, swathBounds, iRect, subswathIndexMap, product, args,
                  vectorMap, rawSigma0, noiseEquivalentSigma0, sigma0, coefficients>>

\* one pass of "for swath_name in swath_names" with the fit of the subswath
FitSubswath ==
    /\ pc = "fit"
    /\ LET valid2 == CroppedSamples(product.nrv_pixel, swathBounds[iSW], CropOf(obsMode))
           residual == [i \in valid2 |-> RSub(product.nrv_sigma_zero[i],
                                               product.nrv_nesz_corrected[i])]
       IN  IF valid2 = {}
           THEN pc' = "skipped" /\ UNCHANGED <<locals, iSW>>
           ELSE /\ locals' =
                      [fitCoefficients |->
                          Append(locals.fitCoefficients,
                                 LinearFit(product.nrv_pixel, residual, valid2)),
                       blockN0 |-> [i \in DOMAIN locals.blockN0 |->
                                      IF i \in valid2 THEN product.nrv_nesz_corrected[i]
                                      ELSE locals.blockN0[i]],
                       blockRN0 |-> [i \in DOMAIN locals.blockRN0 |->
                                       IF i \in valid2 THEN product.nrv_nesz[i]
                                       ELSE locals.blockRN0[i]]]
                /\ IF iSW < NumberOfSubswaths(obsMode)
                   THEN iSW' = iSW + 1 /\ pc' = "fit"
                   ELSE UNCHANGED iSW /\ pc' = "balance"
    /\ UNCHANGED <<balanceConst, returned>>

\* the discontinuities, their cumulative sum, the bias, and the record
BalancePowers ==
    /\ pc = "balance"
    /\ IF \E k \in DOMAIN locals.fitCoefficients :
             IsNaN(locals.fitCoefficients[k][1]) \/ IsNaN(locals.fitCoefficients[k][2])
       THEN pc' = "skipped" /\ UNCHANGED returned
       ELSE LET fits == locals.fitCoefficients
                crop == CropOf(obsMode)
                cumulated == [k \in Subswaths(obsMode) |-> CumulatedPower(fits, swathBounds, k)]
                blockN0 == [i \in DOMAIN locals.blockN0 |->
                              LET own == { k \in Subswaths(obsMode) :
                                             i \in CroppedSamples(product.nrv_pixel,
                                                                  swathBounds[k], crop) }
                              IN  IF own = {} THEN locals.blockN0[i]
                                  ELSE RAdd(locals.blockN0[i], cumulated[CHOOSE k \in own : TRUE])]
                powerBias == PowerBias(product.nrv_pixel, locals.blockRN0, blockN0,
                                       swathBounds, crop)
            IN  /\ returned' = [balancingPower |->
                                  [k \in Subswaths(obsMode) |-> RAdd(cumulated[k], powerBias)]]
                /\ pc' = "recorded"
    /\ UNCHANGED <<balanceConst, locals, iSW>>

NextBalance == FitSubswath \/ BalancePowers

SpecBalance == InitBalance /\ [][NextBalance]_vars

\* the discontinuity at the boundary after subswath j, from the fits in locals
BoundaryStep(j) == Discontinuity(locals.fitCoefficients, swathBounds, j)

\* C22 as stated: the balancing power recorded for subswath i is the sum of the
\* discontinuities at the boundaries before it, and the one recorded for
\* subswath 1 is zero.
C22_AsStated ==
    pc = "recorded" =>
       /\ returned.balancingPower[1] = Zero
       /\ returned.balancingPower[2] = BoundaryStep(1)
       /\ returned.balancingPower[3] = RAdd(BoundaryStep(1), BoundaryStep(2))

-----------------------------------------------------------------------------
(* adaptiveNoiseScaling, subswath by subswath *)

\* the widths of the three subswaths in the upper and in the lower azimuth
\* block of the modelled images: straight boundaries, and boundaries that
\* step by two pixels between the blocks
SwathLayouts == {<<<<3, 5, 3>>, <<3, 5, 3>>>>, <<<<3, 5, 3>>, <<5, 3, 3>>>>}

\* the line at which the lower azimuth block starts
BlockLine == 2

\* the first column of subswath k
RECURSIVE FirstColumn(_, _)
FirstColumn(widths, k) == IF k = 1 THEN 0 ELSE FirstColumn(widths, k - 1) + widths[k - 1]

AdaptiveShape(layout) ==
    <<WindowSize, FirstColumn(layout[1], Len(layout[1])) + layout[1][Len(layout[1])]>>

AdaptiveBounds(layout) ==
    [k \in DOMAIN layout[1] |->
        <<Rect(0, FirstColumn(layout[1], k), BlockLine - 1,
               FirstColumn(layout[1], k) + layout[1][k] - 1),
          Rect(BlockLine, FirstColumn(layout[2], k), WindowSize - 1,
               FirstColumn(layout[2], k) + layout[2][k] - 1)>>]

\* extra-scaling curves that differ from subswath to subswath
DistinctCurves ==
    [SNR |-> StoredAxis,
     curves |-> [k \in Subswaths("IW") |-> [len |-> StoredAxis.len, value |-> <<k + 1, 1>>]]]

InitAdaptive ==
    /\ pc = "adaptive"
    /\ obsMode = "IW"
    /\ \E widths \in SwathLayouts :
          /\ shape = AdaptiveShape(widths)
          /\ swathBounds = AdaptiveBounds(widths)
          /\ subswathIndexMap = SubswathIndexMapOf(AdaptiveBounds(widths), "IW", AdaptiveShape(widths))
          /\ \E level \in {<<1, 2>>, One, <<3, 1>>, <<5, 1>>},
                hole \in {<<-1, -1>>} \cup { <<y, x>> : y \in {0, 2}, x \in {0, 4, 5, 9} },
                low \in 0..3 :
                /\ rawSigma0 = [q \in Grid(AdaptiveShape(widths)) |->
                                  IF q = hole THEN NaN
                                  ELSE IF subswathIndexMap[q] = low THEN <<1, 2>> ELSE level]
                /\ args = [noiseEquivalentSigma0 |-> [q \in Grid(AdaptiveShape(widths)) |-> One],
                           extraScalingParameters |-> DistinctCurves,
                           windowSize |-> WindowSize]
    /\ noiseEquivalentSigma0 = args.noiseEquivalentSigma0
    /\ iSW = 1
    /\ iRect = 0
    /\ product = <<>>
    /\ vectorMap = <<>>
    /\ sigma0 = <<>>
    /\ coefficients = <<>>
    /\ locals = <<>>
    /\ returned = <<>>

\* one pass of "for iSW in range(1, N+1)"; SNR and the window means were
\* computed before the loop, from the rasters as passed
ScaleSubswath ==
    /\ pc = "adaptive"
    /\ LET extra == args.extraScalingParameters
       IN  IF ~SplineAccepts(extra.SNR, extra.curves[iSW], SplineDegree)
           THEN pc' = "raised" /\ UNCHANGED <<noiseEquivalentSigma0, iSW>>
           ELSE /\ noiseEquivalentSigma0' =
                      [q \in DOMAIN noiseEquivalentSigma0 |->
                          IF q \in ScaledBy(rawSigma0, args.noiseEquivalentSigma0,
                                            subswathIndexMap, shape, iSW, args.windowSize)
                          THEN RMul(noiseEquivalentSigma0[q], extra.curves[iSW].value)
                          ELSE noiseEquivalentSigma0[q]]
                /\ IF iSW < NumberOfSubswaths(obsMode)
                   THEN iSW' = iSW + 1 /\ pc' = "adaptive"
                   ELSE UNCHANGED iSW /\ pc' = "scaled"
    /\ UNCHANGED <<obsMode, shape, swathBounds, iRect, subswathIndexMap, product, args,
                   vectorMap, rawSigma0, sigma0, coefficients, locals, returned>>

ReturnScaled ==
    /\ pc = "scaled"
    /\ returned' = noiseEquivalentSigma0
    /\ pc' = "returned"
    /\ UNCHANGED <<obsMode, shape, swathBounds, iSW, iRect, subswathIndexMap, product, args,
                   vectorMap, rawSigma0, noiseEquivalentSigma0, sigma0, coefficients, locals>>

NextAdaptive == ScaleSubswath \/ ReturnScaled

SpecAdaptive == InitAdaptive /\ [][NextAdaptive]_vars

\* the windowed SNR at q is finite
SNRFinite(q) ==
    FiniteSNR(BoxMean(rawSigma0, shape, q, WindowSize),
              BoxMean(args.noiseEquivalentSigma0, shape, q, WindowSize))

\* most pixels of the window of q lie in another subswath than q
MajorityMismatched(q) ==
    2 * Cardinality({ c \in Window(shape, q, WindowSize) : subswathIndexMap[c] # subswathIndexMap[q] })
       > Cardinality(Window(shape, q, WindowSize))

\* C23 as stated: a pixel whose windowed SNR is not finite, or whose window is
\* majority-mismatched in subswath index, keeps its noise-equivalent value.
C23_AsStated ==
    pc = "returned" =>
       \A q \in Grid(shape) :
          (~SNRFinite(q) \/ MajorityMismatched(q)) => returned[q] = args.noiseEquivalentSigma0[q]

\* C26 as stated: a pixel is corrected at most once, and a corrected pixel was
\* multiplied by the curve of its own subswath.
C26_AsStated ==
    pc = "returned" =>
       \A q \in Grid(shape) :
          \/ returned[q] = args.noiseEquivalentSigma0[q]
          \/ /\ subswathIndexMap[q] \in Subswaths(obsMode)
             /\ returned[q] = RMul(args.noiseEquivalentSigma0[q],
                                   args.extraScalingParameters.curves[subswathIndexMap[q]].value)

-----------------------------------------------------------------------------
(* focusedBurstLengthInTime *)

\* the largest burst count and the excess of lines of the modelled subswaths
MaxBursts == 3
MaxExtraLines == 24

\* nominalLinesPerBurst = {'IW':1450, 'EW':1100}[self.obsMode]
NominalLinesPerBurst(mode) == IF mode = "IW" THEN 1450 ELSE 1100

\* numberOfInputLines of the annotations: fewer lines than one nominal
\* burst, and up to MaxBursts nominal bursts and a few lines more
InputLines(mode) ==
    { NominalLinesPerBurst(mode) * k + r : k \in 0..MaxBursts, r \in 0..MaxExtraLines }

\* the floor quotient taken for the burst count
FloorQuotient(n, nominal) == { d \in 1..(n \div nominal) : d = n \div nominal }

\* [primeNumber for primeNumber in range(1, n//nominal + 1) if n % primeNumber == 0]
Divisors(n, nominal) == { d \in 1..(n \div nominal) : n % d = 0 }

InitBurstLength ==
    /\ pc = "focus"
    /\ obsMode \in {"IW", "EW"}
    /\ \E first \in InputLines(obsMode), hz \in {1, 486} :
       \E rest \in {<<>>} \cup { <<n>> : n \in {first, first + 1, 2 * first, 0} } :
          product = [inputDimensions |-> <<first>> \o rest, azimuthFrequency |-> hz]
    /\ locals = [iList |-> 1, numberOfInputLines |-> 0, numberOfBursts |-> 0, error |-> ""]
    /\ returned = <<>>
    /\ shape = <<>>
    /\ swathBounds = <<>>
    /\ iSW = 0
    /\ iRect = 0
    /\ subswathIndexMap = <<>>
    /\ args = <<>>
    /\ vectorMap = <<>>
    /\ rawSigma0 = <<>>
    /\ noiseEquivalentSigma0 = <<>>
    /\ sigma0 = <<>>
    /\ coefficients = <<>>

\* one pass of "for iList in inputDimensionsList"
FocusSwath ==
    /\ pc = "focus"
    /\ locals.iList <= Len(product.inputDimensions)
    /\ LET n == product.inputDimensions[locals.iList]
           nominal == NominalLinesPerBurst(obsMode)
           candidates == Divisors(n, nominal)
       IN  IF candidates = {}
           THEN /\ pc' = "raised"
                /\ locals' = [locals EXCEPT !.numberOfInputLines = n, !.numberOfBursts = 0,
                                            !.error = "max() arg is an empty sequence"]
                /\ UNCHANGED returned
           ELSE LET numberOfBursts == SetMax(candidates)
                IN  IF n % numberOfBursts = 0
                    THEN /\ returned' = Append(returned,
                                 RMul(Rat(n, numberOfBursts), Rat(1, product.azimuthFrequency)))
                         /\ locals' = [locals EXCEPT !.iList = @ + 1, !.numberOfInputLines = n,
                                                     !.numberOfBursts = numberOfBursts]
                         /\ pc' = "focus"
                    ELSE /\ pc' = "raised"
                         /\ locals' = [locals EXCEPT !.numberOfInputLines = n,
                                          !.numberOfBursts = numberOfBursts,
                                          !.error = "number of bursts cannot be determined."]
                         /\ UNCHANGED returned
    /\ UNCHANGED orbitConst

ReturnBurstLength ==
    /\ pc = "focus"
    /\ locals.iList > Len(product.inputDimensions)
    /\ pc' = "returned"
    /\ UNCHANGED <<locals, returned>>
    /\ UNCHANGED orbitConst

NextBurstLength == FocusSwath \/ ReturnBurstLength

SpecBurstLength == InitBurstLength /\ [][NextBurstLength]_vars

\* C30: for a subswath with at least the nominal number of input lines the
\* chosen burst count divides the line count, does not exceed the floor
\* quotient, no larger count up to the quotient divides it, each burst has
\* at least the nominal number of lines, the recorded length is lines per
\* burst times the line interval, and 'number of bursts cannot be
\* determined' is never raised.
C30_BurstCount ==
    /\ locals.error # "number of bursts cannot be determined."
    /\ locals.numberOfInputLines >= NominalLinesPerBurst(obsMode) =>
          LET n == locals.numberOfInputLines
              b == locals.numberOfBursts
              q == n \div NominalLinesPerBurst(obsMode)
          IN  /\ pc # "raised"
              /\ b \in 1..q
              /\ n % b = 0
              /\ \A d \in (b + 1)..q : n % d # 0
              /\ (n \div b) >= NominalLinesPerBurst(obsMode)
              /\ returned[locals.iList - 1] = Rat(n \div b, product.azimuthFrequency)

\* a subswath of two full bursts and a remainder was given a burst count below its quotient
C30_Witness ==
    /\ pc = "returned"
    /\ locals.numberOfInputLines > 2 * NominalLinesPerBurst(obsMode)
    /\ locals.numberOfBursts = 1
    /\ Len(returned) = 2

-----------------------------------------------------------------------------
(* scallopingGainMap: burst boundaries and burst-relative time *)

\* the number of image lines, and the longest list of burst boundaries
BurstLines == 3
MaxBoundaries == 12

\* times are counted in quarters of a second: the annotated times and the
\* burst length are whole seconds, so every halving below is exact, as it is
\* for the floats of the code

\* x / 2.
Half(x) == x \div 2

\* np.diff(t)
Diff(t) == [i \in 1..(Len(t) - 1) |-> t[i + 1] - t[i]]

StrictlyIncreasing(t) == \A i \in 1..(Len(t) - 1) : t[i] < t[i + 1]

\* annotated burst start times of the antenna pattern list: one to three
\* bursts, steps of 0, 1 or 2 seconds
AnnotatedBurstTimes ==
    { <<t>> : t \in {0, 4} }
       \cup { <<t, t + d>> : t \in {0, 4}, d \in {0, 4, 8} }
       \cup { <<t, t + d, t + d + e>> : t \in {0, 4}, d \in {4, 8}, e \in {0, 4, 8} }

\* azimuth time of the image lines along the subswath centre
LineTimes ==
    { [i \in 1..BurstLines |-> first + (i - 1) * step] :
         first \in {-8, -2, 0}, step \in {2, 4} }

\* burstOverlap = fullBurstLength - np.diff(burstStartTime)
\* burstOverlap = np.hstack([burstOverlap[0], burstOverlap])
\* burstStartTime += burstOverlap / 2.
TimeCorrected(t, fullBurstLength) ==
    LET overlap == [i \in DOMAIN Diff(t) |-> fullBurstLength - Diff(t)[i]]
        stacked == <<overlap[1]>> \o overlap
    IN  [i \in DOMAIN t |-> t[i] + Half(stacked[i])]

\* a step that leaves the first boundary where it is
BoundaryBeforeSame(t) == t[1]

\* burstStartTime[0] - np.diff(burstStartTime)[0]
BoundaryBefore(t) == t[1] - Diff(t)[1]

\* burstStartTime[-1] + np.diff(burstStartTime)[-1]
BoundaryAfter(t) == t[Len(t)] + Diff(t)[Len(t) - 1]

InitBurstTime ==
    /\ pc = "correct"
    /\ \E annotated \in AnnotatedBurstTimes, lines \in LineTimes, full \in {8, 12} :
          /\ product = [azimuthTime |-> annotated, fullBurstLength |-> full]
          /\ locals = [burstStartTime |-> annotated, azimuthTime |-> lines,
                       burstTime |-> lines, li |-> 0,
                       conversions |-> [i \in DOMAIN lines |-> 0]]
    /\ returned = <<>>
    /\ obsMode = "IW"
    /\ shape = <<>>
    /\ swathBounds = <<>>
    /\ iSW = 1
    /\ iRect = 0
    /\ subswathIndexMap = <<>>
    /\ args = <<>>
    /\ vectorMap = <<>>
    /\ rawSigma0 = <<>>
    /\ noiseEquivalentSigma0 = <<>>
    /\ sigma0 = <<>>
    /\ coefficients = <<>>

\* the overlap and the time correction; burstOverlap[0] of a single burst
\* raises IndexError
CorrectBurstTimes ==
    /\ pc = "correct"
    /\ IF Len(locals.burstStartTime) < 2
       THEN pc' = "raised" /\ UNCHANGED locals
       ELSE /\ locals' = [locals EXCEPT
                    !.burstStartTime = TimeCorrected(locals.burstStartTime, product.fullBurstLength)]
            /\ pc' = "before"
    /\ UNCHANGED <<obsMode, shape, swathBounds, iSW, iRect, subswathIndexMap, product, args,
                   vectorMap, rawSigma0, noiseEquivalentSigma0, sigma0, coefficients, returned>>

\* while burstStartTime[0] > azimuthTime[0]
ExtendBefore ==
    /\ pc = "before"
    /\ IF locals.burstStartTime[1] > locals.azimuthTime[1]
       THEN /\ Len(locals.burstStartTime) < MaxBoundaries
            /\ locals' = [locals EXCEPT !.burstStartTime =
                                <<BoundaryBefore(locals.burstStartTime)>> \o locals.burstStartTime]
            /\ pc' = "before"
       ELSE pc' = "after" /\ UNCHANGED locals
    /\ UNCHANGED <<obsMode, shape, swathBounds, iSW, iRect, subswathIndexMap, product, args,
                   vectorMap, rawSigma0, noiseEquivalentSigma0, sigma0, coefficients, returned>>

\* while burstStartTime[-1] < azimuthTime[-1]
ExtendAfter ==
    /\ pc = "after"
    /\ IF locals.burstStartTime[Len(locals.burstStartTime)]
             < locals.azimuthTime[Len(locals.azimuthTime)]
       THEN /\ Len(locals.burstStartTime) < MaxBoundaries
            /\ locals' = [locals EXCEPT !.burstStartTime =
                                Append(locals.burstStartTime, BoundaryAfter(locals.burstStartTime))]
            /\ pc' = "after"
       ELSE pc' = "convert" /\ UNCHANGED locals
    /\ UNCHANGED <<obsMode, shape, swathBounds, iSW, iRect, subswathIndexMap, product, args,
                   vectorMap, rawSigma0, noiseEquivalentSigma0, sigma0, coefficients, returned>>

\* valid = (azimuthTime >= burstStartTime[li]) * (azimuthTime < burstStartTime[li+1])
InInterval(t, bounds, li) == t >= bounds[li + 1] /\ t < bounds[li + 2]

\* (burstStartTime[li] + burstStartTime[li+1]) / 2.
MidPoint(bounds, li) == Half(bounds[li + 1] + bounds[li + 2])

\* one pass of "for li in range(len(burstStartTime)-1)"
ConvertInterval ==
    /\ pc = "convert"
    /\ IF locals.li < Len(locals.burstStartTime) - 1
       THEN /\ locals' = [locals EXCEPT
                 !.burstTime = [i \in DOMAIN locals.burstTime |->
                     IF InInterval(locals.azimuthTime[i], locals.burstStartTime, locals.li)
                     THEN locals.burstTime[i] - MidPoint(locals.burstStartTime, locals.li)
                     ELSE locals.burstTime[i]],
                 !.conversions = [i \in DOMAIN locals.conversions |->
                     IF InInterval(locals.azimuthTime[i], locals.burstStartTime, locals.li)
                     THEN locals.conversions[i] + 1
                     ELSE locals.conversions[i]],
                 !.li = locals.li + 1]
            /\ pc' = "convert"
       ELSE pc' = "converted" /\ UNCHANGED locals
    /\ UNCHANGED <<obsMode, shape, swathBounds, iSW, iRect, subswathIndexMap, product, args,
                   vectorMap, rawSigma0, noiseEquivalentSigma0, sigma0, coefficients, returned>>

NextBurstTime == CorrectBurstTimes \/ ExtendBefore \/ ExtendAfter \/ ConvertInterval

SpecBurstTime == InitBurstTime /\ [][NextBurstTime]_vars

\* the loops run to their end without interruption
SpecBurstTimeFair == SpecBurstTime /\ WF_vars(NextBurstTime)

\* C24: with strictly increasing annotated burst start times both extension
\* loops come to an end, and from then on the first boundary is not after
\* the first line's azimuth time and the last boundary is not before the
\* last line's azimuth time.
C24_ExtensionTerminates ==
    /\ (pc = "before" /\ StrictlyIncreasing(product.azimuthTime)) ~> (pc = "convert")
    /\ [](pc \in {"convert", "converted"} =>
            /\ locals.burstStartTime[1] <= locals.azimuthTime[1]
            /\ locals.azimuthTime[Len(locals.azimuthTime)]
                  <= locals.burstStartTime[Len(locals.burstStartTime)])

\* both loops added boundaries, and the list now covers the image
C24_Witness ==
    /\ pc = "convert"
    /\ StrictlyIncreasing(product.azimuthTime)
    /\ locals.burstStartTime[1] < TimeCorrected(product.azimuthTime, product.fullBurstLength)[1]
    /\ TimeCorrected(product.azimuthTime, product.fullBurstLength)[Len(product.azimuthTime)]
          < locals.burstStartTime[Len(locals.burstStartTime)]

\* the intervals that contain the azimuth time t
Containing(t) ==
    { li \in 0..(Len(locals.burstStartTime) - 2) : InInterval(t, locals.burstStartTime, li) }

\* C27 as stated: after the extension every image line is converted exactly
\* once, to its azimuth time minus the midpoint of the interval that
\* contains it, and the result is at most half that interval in magnitude.
C27_AsStated ==
    pc = "converted" =>
       \A i \in DOMAIN locals.azimuthTime :
          /\ locals.conversions[i] = 1
          /\ \E li \in Containing(locals.azimuthTime[i]) :
                /\ locals.burstTime[i] = locals.azimuthTime[i] - MidPoint(locals.burstStartTime, li)
                /\ 2 * Abs(locals.burstTime[i])
                      <= locals.burstStartTime[li + 2] - locals.burstStartTime[li + 1]

-----------------------------------------------------------------------------
(* experiment_noiseScaling *)

\* np.gradient(y): one-sided differences at the ends, central ones between
Gradient(y) ==
    [i \in DOMAIN y |->
        IF i = 1 THEN RSub(y[2], y[1])
        ELSE IF i = Len(y) THEN RSub(y[i], y[i - 1])
        ELSE RDiv(RSub(y[i + 1], y[i - 1]), <<2, 1>>)]

\* weight = abs(np.gradient(meanN0))
\* weight = weight / weight.sum() * np.sqrt(len(weight))
Weights(meanN0) ==
    LET weight == Computed([i \in DOMAIN meanN0 |-> RAbs(Gradient(meanN0)[i])])
        total == SumSeq(weight)
        root == ExactRoot(<<Len(meanN0), 1>>)
    IN  Computed([i \in DOMAIN meanN0 |-> RMul(RDiv(weight[i], total), root)])

\* the determinant of the normal equations of np.polyfit(x, y, w=w, deg=1)
FitDeterminant(x, w) ==
    LET q == Computed([i \in DOMAIN w |-> RMul(w[i], w[i])])
        sq == SumSeq(q)
        sx == SumSeq([i \in DOMAIN w |-> RMul(q[i], <<x[i], 1>>)])
        sxx == SumSeq([i \in DOMAIN w |-> RMul(q[i], <<x[i] * x[i], 1>>)])
    IN  RSub(RMul(sq, sxx), RMul(sx, sx))

\* np.polyfit(x, y, w=w, deg=1, full=True)[1].item(): the sum of the squared
\* weighted residuals of the least-squares line
FitResidual(x, y, w) ==
    LET q == Computed([i \in DOMAIN w |-> RMul(w[i], w[i])])
        sq == SumSeq(q)
        sx == SumSeq([i \in DOMAIN w |-> RMul(q[i], <<x[i], 1>>)])
        sy == SumSeq([i \in DOMAIN w |-> RMul(q[i], y[i])])
        sxx == SumSeq([i \in DOMAIN w |-> RMul(q[i], <<x[i] * x[i], 1>>)])
        sxy == SumSeq([i \in DOMAIN w |-> RMul(q[i], RMul(<<x[i], 1>>, y[i]))])
        det == RSub(RMul(sq, sxx), RMul(sx, sx))
        slope == RDiv(RSub(RMul(sq, sxy), RMul(sx, sy)), det)
        intercept == RDiv(RSub(RMul(sxx, sy), RMul(sx, sxy)), det)
        rest == Computed([i \in DOMAIN w |->
                    RSub(y[i], RAdd(RMul(slope, <<x[i], 1>>), intercept))])
    IN  SumSeq([i \in DOMAIN w |-> RMul(q[i], RMul(rest[i], rest[i]))])

\* errFunc = lambda k,x,s0,n0,w: np.polyfit(x,s0-k*n0,w=w,deg=1,full=True)[1].item()
ErrFunc(k, x, s0, n0, w) ==
    FitResidual(x, [i \in DOMAIN s0 |-> RSub(s0[i], RMul(k, n0[i]))], w)

\* points on both sides of the interval [lo, hi], in steps of one half
SearchPointsBeyond(lo, hi) == { Rat(j, 2) : j \in (2 * lo - 4)..(2 * hi + 6) }

\* the points of [lo, hi] that the bounded search can return, in steps of
\* one half
SearchPoints(lo, hi) == { Rat(j, 2) : j \in (2 * lo)..(2 * hi) }

\* fminbound(errFunc, lo, hi, args=(x, s0, n0, w)): the points of the
\* interval at which errFunc is least
FminBound(x, s0, n0, w, lo, hi) ==
    LET err == Computed([k \in SearchPoints(lo, hi) |-> ErrFunc(k, x, s0, n0, w)])
    IN  { k \in SearchPoints(lo, hi) : \A j \in SearchPoints(lo, hi) : RLe(err[k], err[j]) }

\* the block means of one subswath: no usable pixel, two pixels, flat noise,
\* and sigma0 = k * noise + a ramp for k below, inside and above the interval
ScalingData ==
    {[pixelIndex |-> <<>>, meanS0 |-> <<>>, meanN0 |-> <<>>],
     [pixelIndex |-> <<1, 2>>, meanS0 |-> <<<<3, 1>>, <<2, 1>>>>, meanN0 |-> <<<<2, 1>>, One>>],
     [pixelIndex |-> <<1, 2, 3, 4>>, meanS0 |-> <<<<3, 1>>, <<2, 1>>, <<2, 1>>, One>>,
      meanN0 |-> <<One, One, One, One>>]}
       \cup { [pixelIndex |-> <<1, 2, 3, 4>>,
               meanS0 |-> [i \in 1..4 |-> <<k * (<<4, 2, 1, 1>>)[i] + 10 + i, 1>>],
               meanN0 |-> <<<<4, 1>>, <<2, 1>>, One, One>>] : k \in {-1, 0, 1, 2, 5} }

InitScaling ==
    /\ pc = "scaling"
    /\ obsMode = "IW"
    /\ product \in [data : [Subswaths("IW") -> ScalingData], landmask : {0, 1}]
    /\ iSW = 1
    /\ locals = [scalingFactor |-> [k \in Subswaths("IW") |-> <<>>],
                 fitResidual |-> [k \in Subswaths("IW") |-> <<>>]]
    /\ returned = <<>>
    /\ shape = <<>>
    /\ swathBounds = <<>>
    /\ iRect = 0
    /\ subswathIndexMap = <<>>
    /\ args = <<>>
    /\ vectorMap = <<>>
    /\ rawSigma0 = <<>>
    /\ noiseEquivalentSigma0 = <<>>
    /\ sigma0 = <<>>
    /\ coefficients = <<>>

\* append to results[subswathID]['scalingFactor'] and ['fitResidual']
RecordScaling(k, residual) ==
    /\ locals' = [scalingFactor |-> [locals.scalingFactor EXCEPT ![iSW] = Append(locals.scalingFactor[iSW], k)],
                  fitResidual |-> [locals.fitResidual EXCEPT ![iSW] = Append(locals.fitResidual[iSW], residual)]]
    /\ iSW' = iSW + 1
    /\ pc' = "scaling"

\* if landmask[block].sum() != 0: continue
SkipBlock ==
    /\ pc = "scaling"
    /\ iSW = 1
    /\ product.landmask # 0
    /\ pc' = "save"
    /\ UNCHANGED <<iSW, locals, returned>>
    /\ UNCHANGED <<obsMode, shape, swathBounds, iRect, subswathIndexMap, product, args,
                   vectorMap, rawSigma0, noiseEquivalentSigma0, sigma0, coefficients>>

\* one pass of "for iSW in range(1, N+1)" in a block without land.  The
\* correlation coefficient is a by-product that neither raises nor enters
\* the scaling factor.
FitScalingFactor ==
    /\ pc = "scaling"
    /\ product.landmask = 0
    /\ iSW <= NumberOfSubswaths(obsMode)
    /\ LET d == product.data[iSW]
       IN  IF Len(d.pixelIndex) = 0
           THEN iSW' = iSW + 1 /\ pc' = "scaling" /\ UNCHANGED locals
           ELSE IF Len(d.pixelIndex) < 3
           THEN pc' = "raised" /\ UNCHANGED <<iSW, locals>>
           ELSE LET w == Weights(d.meanN0)
                IN  IF \E i \in DOMAIN w : ~IsFinite(w[i])
                    THEN \/ pc' = "raised" /\ UNCHANGED <<iSW, locals>>
                         \/ \E k \in SearchPoints(0, 3) : RecordScaling(k, NaN)
                    ELSE IF FitDeterminant(d.pixelIndex, w) = Zero
                    THEN pc' = "raised" /\ UNCHANGED <<iSW, locals>>
                    ELSE \E k \in FminBound(d.pixelIndex, d.meanS0, d.meanN0, w, 0, 3) :
                            RecordScaling(k, ErrFunc(k, d.pixelIndex, d.meanS0, d.meanN0, w))
    /\ UNCHANGED <<obsMode, shape, swathBounds, iRect, subswathIndexMap, product, args,
                   vectorMap, rawSigma0, noiseEquivalentSigma0, sigma0, coefficients, returned>>

\* np.savez(..., **results)
SaveScaling ==
    /\ pc \in {"scaling", "save"}
    /\ pc = "scaling" => (product.landmask = 0 /\ iSW > NumberOfSubswaths(obsMode))
    /\ returned' = locals
    /\ pc' = "saved"
    /\ UNCHANGED <<obsMode, shape, swathBounds, iSW, iRect, subswathIndexMap, product, args,
                   vectorMap, rawSigma0, noiseEquivalentSigma0, sigma0, coefficients, locals>>

NextScaling == SkipBlock \/ FitScalingFactor \/ SaveScaling

SpecScaling == InitScaling /\ [][NextScaling]_vars

-----------------------------------------------------------------------------
(* The extra-scaling axis returned by import_denoisingCoefficients *)

\* C28 as stated: whatever entries the parameter file holds, the imported
\* extra-scaling parameters have a non-empty axis under 'SNR', of the same
\* length as the curve of every subswath.
C28_AsStated ==
    coefficients # <<>> =>
       LET extra == coefficients.extraScalingParameters
       IN  /\ extra.SNR.len > 0
           /\ \A k \in Subswaths(obsMode) : extra.curves[k].len = extra.SNR.len

-----------------------------------------------------------------------------
(* Sentinel1Image.experiment_powerBalancing: one block *)

\* range samples of each subswath of the modelled block
FitWidth == 2

\* the columns of subswath k
FitColumns(k) == (FitWidth * (k - 1))..(FitWidth * k - 1)

\* meanS0 - meanN0 of subswath k at column x: a line of its own per subswath
FitSample(k, x) == <<k * k + k * x, 1>>

\* np.polyfit(pixelIndex, meanS0 - meanN0, deg=1, full=True)[0]
ImageFit(k) ==
    LinearFit([x \in FitColumns(k) |-> x], [x \in FitColumns(k) |-> FitSample(k, x)],
              FitColumns(k))

\* np.where(np.gradient(blockSWI,axis=1)==0.5)[1]: the two columns next to
\* each boundary, line after line
BoundaryColumns(mode, lines) ==
    [i \in 1..(2 * (NumberOfSubswaths(mode) - 1) * lines) |->
        LET j == ((i - 1) % (2 * (NumberOfSubswaths(mode) - 1))) \div 2 + 1
        IN  (FitWidth * j - 1) + ((i - 1) % 2)]

\* .reshape(4*numberOfLinesToAverage,2) can be done
Reshapes(columns, lines) == Len(columns) = 4 * lines * 2

\* .reshape(4*numberOfLinesToAverage,2)[li::4].mean()
InterswathBound(columns, lines, li) ==
    LET rows == { r \in 0..(4 * lines - 1) : r % 4 = li }
    IN  RDiv(SumOver([i \in DOMAIN columns |-> <<columns[i], 1>>],
                     UNION { {2 * r + 1, 2 * r + 2} : r \in rows }),
             <<2 * Cardinality(rows), 1>>)

\* coefficients[0] * bound + coefficients[1]
PowerAt(fit, bound) == RAdd(RMul(fit[1], bound), fit[2])

\* np.cumsum(balancingPower)
RECURSIVE CumSum(_)
CumSum(v) ==
    IF v = <<>> THEN <<>>
    ELSE LET front == CumSum(SubSeq(v, 1, Len(v) - 1))
         IN  Append(front, IF front = <<>> THEN v[1] ELSE RAdd(front[Len(front)], v[Len(v)]))

InitImageBalance ==
    /\ pc = "fit"
    /\ obsMode \in {"IW", "EW"}
    /\ \E usable \in SUBSET Subswaths(obsMode), lines \in {1, 2}, offset \in {Zero, One} :
          product = [usable |-> usable, numberOfLinesToAverage |-> lines, noiseOffset |-> offset]
    /\ iSW = 1
    /\ locals = [fitCoefficients |-> <<>>, li |-> 0,
                 balancingPower |-> [i \in 1..5 |-> Zero]]
    /\ returned = [k \in Subswaths(obsMode) |-> <<>>]
    /\ shape = <<>>
    /\ swathBounds = <<>>
    /\ iRect = 0
    /\ subswathIndexMap = <<>>
    /\ args = <<>>
    /\ vectorMap = <<>>
    /\ rawSigma0 = <<>>
    /\ noiseEquivalentSigma0 = <<>>
    /\ sigma0 = <<>>
    /\ coefficients = <<>>

\* one pass of the fitting loop: a subswath without usable pixels is passed
\* over, the fit of any other is appended to fitCoefficients
FitImageSubswath ==
    /\ pc = "fit"
    /\ locals' = [locals EXCEPT !.fitCoefficients =
                    IF iSW \in product.usable
                    THEN Append(locals.fitCoefficients, ImageFit(iSW))
                    ELSE locals.fitCoefficients]
    /\ IF iSW < NumberOfSubswaths(obsMode)
       THEN iSW' = iSW + 1 /\ pc' = "fit"
       ELSE UNCHANGED iSW /\ pc' = "balance"
    /\ UNCHANGED <<obsMode, shape, swathBounds, iRect, subswathIndexMap, product, args,
                   vectorMap, rawSigma0, noiseEquivalentSigma0, sigma0, coefficients, returned>>

\* one pass of "for li in range(4)"
BalanceBoundary ==
    /\ pc = "balance"
    /\ locals.li < 4
    /\ LET columns == BoundaryColumns(obsMode, product.numberOfLinesToAverage)
           li == locals.li
       IN  IF ~Reshapes(columns, product.numberOfLinesToAverage)
              \/ li + 2 > Len(locals.fitCoefficients)
           THEN pc' = "raised" /\ UNCHANGED locals
           ELSE LET bound == InterswathBound(columns, product.numberOfLinesToAverage, li)
                    power1 == PowerAt(locals.fitCoefficients[li + 1], bound)
                    power2 == PowerAt(locals.fitCoefficients[li + 2], bound)
                IN  /\ locals' = [locals EXCEPT
                          !.balancingPower = [locals.balancingPower EXCEPT ![li + 2] = RSub(power2, power1)],
                          !.li = li + 1]
                    /\ pc' = "balance"
    /\ UNCHANGED <<obsMode, shape, swathBounds, iSW, iRect, subswathIndexMap, product, args,
                   vectorMap, rawSigma0, noiseEquivalentSigma0, sigma0, coefficients, returned>>

\* the cumulative sum, the bias over the subswaths from the second on (the
\* scaled noise lies noiseOffset below the raw noise at every pixel) and the
\* record of one value per subswath
RecordBalancing ==
    /\ pc = "balance"
    /\ locals.li = 4
    /\ LET cumulated == CumSum(locals.balancingPower)
           others == { k \in Subswaths(obsMode) : k >= 2 }
           powerBias == RDiv(SumOver([k \in others |-> RSub(product.noiseOffset, cumulated[k])], others),
                             <<Cardinality(others), 1>>)
       IN  returned' = [k \in Subswaths(obsMode) |->
                           Append(returned[k], RAdd(cumulated[k], powerBias))]
    /\ pc' = "recorded"
    /\ UNCHANGED <<obsMode, shape, swathBounds, iSW, iRect, subswathIndexMap, product, args,
                   vectorMap, rawSigma0, noiseEquivalentSigma0, sigma0, coefficients, locals>>

NextImageBalance == FitImageSubswath \/ BalanceBoundary \/ RecordBalancing

SpecImageBalance == InitImageBalance /\ [][NextImageBalance]_vars

\* C29 as stated: in both modes the block is worked through without an
\* error, the discontinuity at the boundary between subswaths i and i+1 is
\* the difference of the fits of subswaths i+1 and i at that boundary, and
\* one balancing power is recorded for each subswath.
C29_AsStated ==
    /\ pc # "raised"
    /\ \A i \in 1..locals.li :
          locals.balancingPower[i + 1] =
             LET bound == <<2 * FitWidth * i - 1, 2>>
             IN  RSub(PowerAt(ImageFit(i + 1), bound), PowerAt(ImageFit(i), bound))
    /\ pc = "recorded" => \A k \in Subswaths(obsMode) : Len(returned[k]) = 1

====
